---- MODULE Spec2Model ----
(***************************************************************************)
(* A model of the Copilot-AI-Translator core:                              *)
(*   - TranslationService (src/translation_service.py): cache key,         *)
(*     translate with cache / mock / retry loop, translate_batch,          *)
(*     validate_translation;                                               *)
(*   - LocalizationParser (src/localization_parser.py): extract_topic,     *)
(*     format_topic_name, validate_structure.                              *)
(* Python strings are sequences of one-character strings, so that          *)
(* searching, stripping, slicing and case conversion are computed as the   *)
(* code computes them.                                                     *)
(***************************************************************************)
EXTENDS Integers, Sequences, FiniteSets, TLC

VARIABLES
    translation_cache, \* TranslationService.translation_cache: fingerprint -> text
    cache_file,        \* contents of translation_cache.json
    client,            \* TRUE iff TranslationService.client is set
    call,              \* the translate() call in progress
    batch,             \* the translate_batch() call in progress
    fp,                \* get_cache_key applied to two argument tuples
    val,               \* validate_translation applied to one pair of texts
    tp,                \* extract_topic applied to one key
    vs,                \* validate_structure applied to one file
    app,               \* CopilotTranslator: loaded data, translations, language
    pe,                \* parse_entry applied to one entry
    wk                 \* the worker threads of _translate_batch_parallel

vars == <<translation_cache, cache_file, client, call, batch, fp, val, tp, vs, app, pe, wk>>

-----------------------------------------------------------------------------
(* Bounds of the model *)

MaxRetries == 3
MaxCache == 2
MaxFieldLen == 1
MaxBatch == 2
MaxTokens == 2
MaxEntries == 6

\* translate's default for max_retries
DefaultMaxRetries == 3

\* validate_structure returns at most this many errors, and a marker
MaxErrorsShown == 10

-----------------------------------------------------------------------------
(* Python str operations on sequences of characters *)

LowerChars == <<"a","b","c","d","e","f","g","h","i","j","k","l","m","n","o","p","q","r","s","t","u","v","w","x","y","z">>
UpperChars == <<"A","B","C","D","E","F","G","H","I","J","K","L","M","N","O","P","Q","R","S","T","U","V","W","X","Y","Z">>

IsLower(c) == \E i \in 1..Len(LowerChars) : LowerChars[i] = c
IsUpper(c) == \E i \in 1..Len(UpperChars) : UpperChars[i] = c

CharUpper(c) ==
    IF IsLower(c) THEN UpperChars[CHOOSE i \in 1..Len(LowerChars) : LowerChars[i] = c]
    ELSE c

CharLower(c) ==
    IF IsUpper(c) THEN LowerChars[CHOOSE i \in 1..Len(UpperChars) : UpperChars[i] = c]
    ELSE c

\* str.upper() and str.lower()
upper(s) == [i \in 1..Len(s) |-> CharUpper(s[i])]
lower(s) == [i \in 1..Len(s) |-> CharLower(s[i])]

\* characters str.strip() and str.split() treat as whitespace
Whitespace == {" ", "\t", "\n"}

\* s[a-1 : b] of Python, as the characters a..b of s (empty when a > b)
Slice(s, a, b) == IF a > b THEN << >> ELSE SubSeq(s, a, b)

\* str.strip(): drop leading and trailing whitespace
strip(s) ==
    LET keep == {i \in 1..Len(s) : s[i] \notin Whitespace}
    IN  IF keep = {} THEN << >>
        ELSE LET first == CHOOSE i \in keep : \A j \in keep : i <= j
                 last  == CHOOSE i \in keep : \A j \in keep : j <= i
             IN  SubSeq(s, first, last)

\* str.startswith(p), str.endswith(p)
startswith(s, p) == Len(p) <= Len(s) /\ SubSeq(s, 1, Len(p)) = p
endswith(s, p) == Len(p) <= Len(s) /\ SubSeq(s, Len(s) - Len(p) + 1, Len(s)) = p

\* p in s
Contains(s, p) == \E i \in 1..(Len(s) - Len(p) + 1) : SubSeq(s, i, i + Len(p) - 1) = p

-----------------------------------------------------------------------------
(* TranslationService: literals *)

S_formal == <<"f","o","r","m","a","l">>
S_conversational == <<"c","o","n","v","e","r","s","a","t","i","o","n","a","l">>
S_chatbot == <<"c","h","a","t","b","o","t">>
S_ErrorSentinel == <<"[","E","R","R","O","R",":">>
S_TranslationFailed == <<"T","r","a","n","s","l","a","t","i","o","n"," ","f","a","i","l","e","d",":"," ">>
S_FailedAfterRetries == <<"[","E","R","R","O","R",":"," ","T","r","a","n","s","l","a","t","i","o","n"," ","f","a","i","l","e","d"," ","a","f","t","e","r"," ","r","e","t","r","i","e","s","]">>
S_NoneHasNoStrip == <<"'","N","o","n","e","T","y","p","e","'"," ","o","b","j","e","c","t"," ","h","a","s"," ","n","o"," ","a","t","t","r","i","b","u","t","e"," ","'","s","t","r","i","p","'">>

\* the inputs the model draws translate's arguments from
Texts == { <<"P","a","y"," ","n","o","w">>, <<"O","k">> }
Languages == { <<"S","p","a","n","i","s","h">> }
Styles == { S_formal, <<"s","l","a","n","g">> }
Contexts == { << >>, <<"B","i","l","l","i","n","g">> }

\* message.content of a backend answer, when it is a string (it may also be None)
BackendContents ==
    { <<"H","o","l","a">>, <<" ","\"","H","o","l","a","\""," ">>, <<"'">> }
\* str(e) of what the backend call may raise
BackendErrors == { <<"t","i","m","e","o","u","t">> }

-----------------------------------------------------------------------------
(* TranslationService.get_cache_key *)

\* f"{text}|{target_language}|{style}|{context}"
CacheKeyContent(text, target_language, style, context) ==
    text \o <<"|">> \o target_language \o <<"|">> \o style \o <<"|">> \o context

\* hashlib.md5(...).hexdigest(), taken as injective on the content it is given
Md5(content) == <<"md5", content>>

get_cache_key(text, target_language, style, context) ==
    Md5(CacheKeyContent(text, target_language, style, context))

-----------------------------------------------------------------------------
(* TranslationService._mock_translate *)

\* an unknown style tagged as the formal one
StylePrefix_UnknownIsFormal(style) ==
    IF style = S_conversational THEN <<"[","C","O","N","V","]">>
    ELSE IF style = S_chatbot THEN <<"[","B","O","T","]">>
    ELSE <<"[","F","O","R","M","A","L","]">>

StylePrefix(style) ==
    IF style = S_formal THEN <<"[","F","O","R","M","A","L","]">>
    ELSE IF style = S_conversational THEN <<"[","C","O","N","V","]">>
    ELSE IF style = S_chatbot THEN <<"[","B","O","T","]">>
    ELSE <<"[","T","R","A","N","S","]">>

\* f"{style_prefix} {text} [{target_language.upper()}]"
mock_translate(text, target_language, style) ==
    StylePrefix(style) \o <<" ">> \o text \o <<" ", "[">> \o upper(target_language) \o <<"]">>

-----------------------------------------------------------------------------
(* TranslationService.save_cache: the dump may fail, which is only logged *)

save_cache(cache, file, io_ok) == IF io_ok THEN cache ELSE file

-----------------------------------------------------------------------------
(* TranslationService.translate, one step per backend attempt *)

IdleCall ==
    [pc |-> "idle", text |-> << >>, target_language |-> << >>, style |-> << >>,
     context |-> << >>, max_retries |-> 0, attempt |-> 0, result |-> << >>,
     backend_calls |-> 0, outcomes |-> << >>, slept |-> << >>]

\* the cache check skipped: every request goes on to the mock or the backend
CacheHit_Never(cache_key, cache) == FALSE

\* cache_key in self.translation_cache
CacheHit(cache_key, cache) == cache_key \in DOMAIN cache

\* the result is returned without being stored
CachePut_Skipped(cache, cache_key, translated_text) == cache

\* self.translation_cache[cache_key] = translated_text
CachePut(cache, cache_key, translated_text) ==
    [k \in DOMAIN cache \cup {cache_key} |->
        IF k = cache_key THEN translated_text ELSE cache[k]]

\* the call log of one translate(): backend_calls counts the calls of
\* client.chat.completions.create, outcomes records how each one ended
Called(c, outcome) ==
    [c EXCEPT !.backend_calls = c.backend_calls + 1,
              !.outcomes = Append(c.outcomes, outcome)]

CallKey(c) == get_cache_key(c.text, c.target_language, c.style, c.context)

\* lines 100-110: the cache check, the mock path, and entry into the retry
\* loop, as the call record they leave
EnteredCall(text, target_language, style, context, max_retries) ==
    LET cache_key == get_cache_key(text, target_language, style, context)
        c == [IdleCall EXCEPT !.text = text, !.target_language = target_language,
                              !.style = style, !.context = context,
                              !.max_retries = max_retries]
    IN  IF CacheHit(cache_key, translation_cache)
        THEN [c EXCEPT !.pc = "done", !.result = translation_cache[cache_key]]
        ELSE IF ~client
        THEN [c EXCEPT !.pc = "done",
                       !.result = mock_translate(text, target_language, style)]
        ELSE [c EXCEPT !.pc = "loop"]

\* the result of the early return written to the cache as well
CacheAfterEarlyReturn_StoresResult(cache, c) ==
    IF c.pc = "done" THEN CachePut(cache, CallKey(c), c.result) ELSE cache

\* lines 102-107: the cache-hit and the mock return statements assign nothing
\* to self.translation_cache
CacheAfterEarlyReturn(cache, c) == cache

TranslateEnter(text, target_language, style, context, max_retries) ==
    /\ call.pc = "idle"
    /\ call' = EnteredCall(text, target_language, style, context, max_retries)
    /\ translation_cache' = CacheAfterEarlyReturn(translation_cache, call')
    /\ UNCHANGED <<cache_file, client>>

\* lines 127-130: remove one layer of matching quotes
Unquote(t) ==
    IF \/ (startswith(t, <<"\"">>) /\ endswith(t, <<"\"">>))
       \/ (startswith(t, <<"'">>) /\ endswith(t, <<"'">>))
    THEN Slice(t, 2, Len(t) - 1)
    ELSE t

\* the except branch giving up one attempt too early
OnException_GivesUpEarly(c, e) ==
    IF c.attempt >= c.max_retries - 2
    THEN [c EXCEPT !.pc = "done",
                   !.result = S_ErrorSentinel \o <<" ">> \o S_TranslationFailed \o e \o <<"]">>]
    ELSE [c EXCEPT !.attempt = c.attempt + 1,
                   !.slept = Append(c.slept, 2 ^ c.attempt)]

\* the delay counted from the second power: time.sleep(2 ** (attempt + 1))
OnException_BackoffFromTwo(c, e) ==
    IF c.attempt = c.max_retries - 1
    THEN [c EXCEPT !.pc = "done",
                   !.result = S_ErrorSentinel \o <<" ">> \o S_TranslationFailed \o e \o <<"]">>]
    ELSE [c EXCEPT !.attempt = c.attempt + 1,
                   !.slept = Append(c.slept, 2 ^ (c.attempt + 1))]

\* lines 138-146: the except branch of attempt c.attempt
OnException(c, e) ==
    IF c.attempt = c.max_retries - 1
    THEN [c EXCEPT !.pc = "done",
                   !.result = S_ErrorSentinel \o <<" ">> \o S_TranslationFailed \o e \o <<"]">>]
    ELSE [c EXCEPT !.attempt = c.attempt + 1,
                   !.slept = Append(c.slept, 2 ^ c.attempt)]

\* range(max_retries) still has an attempt to run
LoopRuns(c) == c.attempt < c.max_retries

\* lines 115-136: the backend answers with a string content
BackendAnswers ==
    /\ call.pc = "loop"
    /\ LoopRuns(call)
    /\ \E content \in BackendContents, io_ok \in BOOLEAN :
         LET translated_text == Unquote(strip(content))
             cache_key == CallKey(call)
             cache == CachePut(translation_cache, cache_key, translated_text)
         IN  /\ translation_cache' = cache
             /\ cache_file' = save_cache(cache, cache_file, io_ok)
             /\ call' = [Called(call, "ok") EXCEPT !.pc = "done",
                                                   !.result = translated_text]
    /\ UNCHANGED <<client, batch, fp, val, tp, vs, app, pe, wk>>

\* lines 115-125, 138-146: the backend answers with content None, and
\* .strip() raises AttributeError inside the try
BackendAnswersNone ==
    /\ call.pc = "loop"
    /\ LoopRuns(call)
    /\ call' = OnException(Called(call, "fail"), S_NoneHasNoStrip)
    /\ UNCHANGED <<translation_cache, cache_file, client, batch, fp, val, tp, vs, app, pe, wk>>

\* lines 115, 138-146: the backend call raises
BackendRaises ==
    /\ call.pc = "loop"
    /\ LoopRuns(call)
    /\ \E e \in BackendErrors :
         call' = OnException(Called(call, "fail"), e)
    /\ UNCHANGED <<translation_cache, cache_file, client, batch, fp, val, tp, vs, app, pe, wk>>

\* line 148: the loop ran out without returning (max_retries <= 0)
LoopExhausted ==
    /\ call.pc = "loop"
    /\ ~LoopRuns(call)
    /\ call' = [call EXCEPT !.pc = "done", !.result = S_FailedAfterRetries]
    /\ UNCHANGED <<translation_cache, cache_file, client, batch, fp, val, tp, vs, app, pe, wk>>

-----------------------------------------------------------------------------
(* A caller that translates one text at a time *)

\* the model stops adding entries once the cache holds MaxCache of them
CacheHasRoom(text, target_language, style, context) ==
    \/ get_cache_key(text, target_language, style, context) \in DOMAIN translation_cache
    \/ Cardinality(DOMAIN translation_cache) < MaxCache

TranslateCall ==
    /\ \E text \in Texts, target_language \in Languages, style \in Styles,
          context \in Contexts, max_retries \in 0..MaxRetries :
         /\ CacheHasRoom(text, target_language, style, context)
         /\ TranslateEnter(text, target_language, style, context, max_retries)
    /\ UNCHANGED <<batch, fp, val, tp, vs, app, pe, wk>>

TranslateReturn ==
    /\ call.pc = "done"
    /\ call' = IdleCall
    /\ UNCHANGED <<translation_cache, cache_file, client, batch, fp, val, tp, vs, app, pe, wk>>

-----------------------------------------------------------------------------
(* States the other components rest in *)

IdleBatch == [pc |-> "idle"]
IdleFp == [pc |-> "idle"]
IdleVal == [pc |-> "idle"]
IdleTp == [pc |-> "idle"]
IdleVs == [pc |-> "idle"]
IdleApp == [pc |-> "idle"]
IdlePe == [pc |-> "idle"]
IdleWk == [pc |-> "idle"]

\* caches a previous run may have left in translation_cache.json (load_cache)
EmptyCache == [k \in {} |-> << >>]
StoredCaches ==
    { EmptyCache,
      [k \in {get_cache_key(<<"O","k">>, <<"S","p","a","n","i","s","h">>, S_formal, << >>)}
         |-> <<"V","a","l","e">>] }

ServiceInit ==
    /\ cache_file \in StoredCaches
    /\ translation_cache = cache_file
    /\ client \in BOOLEAN
    /\ call = IdleCall

InitTranslate ==
    /\ ServiceInit
    /\ app = IdleApp
    /\ pe = IdlePe
    /\ wk = IdleWk
    /\ batch = IdleBatch
    /\ fp = IdleFp
    /\ val = IdleVal
    /\ tp = IdleTp
    /\ vs = IdleVs

NextTranslate ==
    \/ TranslateCall
    \/ BackendAnswers
    \/ BackendAnswersNone
    \/ BackendRaises
    \/ LoopExhausted
    \/ TranslateReturn

SpecTranslate == InitTranslate /\ [][NextTranslate]_vars

-----------------------------------------------------------------------------
(* Claims about translate *)

AllFailed(c) == \A i \in 1..Len(c.outcomes) : c.outcomes[i] = "fail"
Failures(c) == Cardinality({i \in 1..Len(c.outcomes) : c.outcomes[i] = "fail"})

\* C1: a translate() whose fingerprint is already in translation_cache returns
\* the cached value in its first step, with no backend call, whether or not a
\* client is configured, and leaves translation_cache and the cache file as
\* they were.
C1_CacheHitReturnsCached ==
    [][ (/\ call.pc = "idle"
         /\ call'.pc # "idle"
         /\ CallKey(call') \in DOMAIN translation_cache)
        => (/\ call'.pc = "done"
            /\ call'.result = translation_cache[CallKey(call')]
            /\ call'.backend_calls = 0
            /\ translation_cache' = translation_cache
            /\ cache_file' = cache_file) ]_vars

\* C1 witness: a call served from the cache although a client is configured.
C1_Witness ==
    /\ call.pc = "done"
    /\ client
    /\ call.backend_calls = 0
    /\ CallKey(call) \in DOMAIN translation_cache
    /\ call.result = translation_cache[CallKey(call)]

\* C2: with a client configured, a request that is not cached and whose every
\* backend call fails ends (it never raises) after exactly max_retries backend
\* calls, for every max_retries >= 0, with a result that begins with "[ERROR:".
C2_AllAttemptsFailGivesSentinel ==
    (/\ call.pc = "done"
     /\ client
     /\ AllFailed(call)
     /\ CallKey(call) \notin DOMAIN translation_cache)
    => (/\ call.backend_calls = call.max_retries
        /\ startswith(call.result, S_ErrorSentinel))

\* C2 witness: a call that returned after three failed backend calls.
C2_Witness ==
    /\ call.pc = "done"
    /\ client
    /\ CallKey(call) \notin DOMAIN translation_cache
    /\ call.outcomes = <<"fail", "fail", "fail">>
    /\ call.max_retries = 3
    /\ startswith(call.result, S_ErrorSentinel)

\* C3: a call that went to the backend and saw k < max_retries failures ended
\* with the success of call k+1: it made exactly k+1 backend calls, the first k
\* failed, and on return translation_cache maps the request's fingerprint to
\* exactly the returned text.
C3_RetryThenSuccessIsCached ==
    (/\ call.pc = "done"
     /\ call.backend_calls >= 1
     /\ Failures(call) < call.max_retries)
    => (/\ call.backend_calls = Failures(call) + 1
        /\ call.outcomes[call.backend_calls] = "ok"
        /\ \A i \in 1..Failures(call) : call.outcomes[i] = "fail"
        /\ CallKey(call) \in DOMAIN translation_cache
        /\ translation_cache[CallKey(call)] = call.result
        /\ \E content \in BackendContents : call.result = Unquote(strip(content)))

\* C3 witness: fail, fail, succeed with max_retries = 3.
C3_Witness ==
    /\ call.pc = "done"
    /\ call.max_retries = 3
    /\ call.outcomes = <<"fail", "fail", "ok">>
    /\ call.result = <<"H","o","l","a">>
    /\ translation_cache[CallKey(call)] = call.result

-----------------------------------------------------------------------------
(* get_cache_key on two argument tuples *)

\* argument strings: the separator of the key content and one other character
KeyChars == {"a", "|"}
KeyStrings == UNION {[1..n -> KeyChars] : n \in 0..MaxFieldLen}
KeyArgs == KeyStrings \X KeyStrings \X KeyStrings \X KeyStrings

KeyOf(args) == get_cache_key(args[1], args[2], args[3], args[4])

InitKey ==
    /\ \E a \in KeyArgs : fp = [pc |-> "first", a |-> a, key_a |-> KeyOf(a)]
    /\ translation_cache = EmptyCache
    /\ cache_file = EmptyCache
    /\ client = FALSE
    /\ call = IdleCall
    /\ app = IdleApp
    /\ pe = IdlePe
    /\ wk = IdleWk
    /\ batch = IdleBatch
    /\ val = IdleVal
    /\ tp = IdleTp
    /\ vs = IdleVs

\* a second request is fingerprinted
SecondKey ==
    /\ fp.pc = "first"
    /\ \E b \in KeyArgs :
         fp' = [pc |-> "both", a |-> fp.a, key_a |-> fp.key_a, b |-> b, key_b |-> KeyOf(b)]
    /\ UNCHANGED <<translation_cache, cache_file, client, call, batch, val, tp, vs, app, pe, wk>>

NextKey == SecondKey

SpecKey == InitKey /\ [][NextKey]_vars

\* C4: get_cache_key is injective on its argument tuple: two tuples get the
\* same fingerprint if and only if they are equal field by field (md5 taken
\* as injective on its content).
C4_KeyInjective ==
    fp.pc = "both" => ((fp.key_a = fp.key_b) <=> (fp.a = fp.b))

-----------------------------------------------------------------------------
(* TranslationService.translate_batch *)

SeqsUpTo(S, n) == UNION {[1..k -> S] : k \in 0..n}

Min(a, b) == IF a <= b THEN a ELSE b

\* zip(texts, contexts): as many pairs as the shorter list has items
Zip(texts, contexts) ==
    [i \in 1..Min(Len(texts), Len(contexts)) |->
        [text |-> texts[i], context |-> contexts[i]]]

\* lines 212-213: contexts left out is a list of '' as long as texts
DefaultContexts(texts) == [i \in 1..Len(texts) |-> << >>]

BatchKeys(texts, target_language, style, contexts) ==
    LET pairs == Zip(texts, contexts)
    IN  {get_cache_key(pairs[i].text, target_language, style, pairs[i].context) :
            i \in 1..Len(pairs)}

\* lines 196-216: translate_batch is called; contexts_given = FALSE is the
\* call that leaves contexts out
BatchCall ==
    /\ batch.pc = "idle"
    /\ \E texts \in SeqsUpTo(Texts, MaxBatch), target_language \in Languages,
          style \in Styles, contexts_given \in BOOLEAN,
          given \in SeqsUpTo(Contexts, MaxBatch) :
         LET contexts == IF contexts_given THEN given ELSE DefaultContexts(texts)
         IN  /\ ~contexts_given => given = << >>
             /\ Cardinality(DOMAIN translation_cache
                            \cup BatchKeys(texts, target_language, style, contexts))
                  <= MaxCache
             /\ batch' = [pc |-> "loop", texts |-> texts,
                          target_language |-> target_language, style |-> style,
                          contexts_given |-> contexts_given, contexts |-> contexts,
                          pairs |-> Zip(texts, contexts), i |-> 1,
                          results |-> << >>, total |-> Len(texts), progress |-> << >>]
    /\ UNCHANGED <<translation_cache, cache_file, client, call, fp, val, tp, vs, app, pe, wk>>

\* lines 218-219: the next pair of the zip is handed to translate
BatchItem ==
    /\ batch.pc = "loop"
    /\ batch.i <= Len(batch.pairs)
    /\ TranslateEnter(batch.pairs[batch.i].text, batch.target_language, batch.style,
                      batch.pairs[batch.i].context, DefaultMaxRetries)
    /\ batch' = [batch EXCEPT !.pc = "item"]
    /\ UNCHANGED <<fp, val, tp, vs, app, pe, wk>>

\* lines 219-223: translate returned; the result is appended and reported
BatchAppend ==
    /\ batch.pc = "item"
    /\ call.pc = "done"
    /\ batch' = [batch EXCEPT
                   !.pc = "loop",
                   !.results = Append(batch.results, call.result),
                   !.progress = Append(batch.progress,
                                       [index |-> batch.i, total |-> batch.total,
                                        text |-> call.text, translated |-> call.result]),
                   !.i = batch.i + 1]
    /\ call' = IdleCall
    /\ UNCHANGED <<translation_cache, cache_file, client, fp, val, tp, vs, app, pe, wk>>

\* line 225: the zip is used up and results is returned
BatchReturn ==
    /\ batch.pc = "loop"
    /\ batch.i > Len(batch.pairs)
    /\ batch' = [batch EXCEPT !.pc = "done"]
    /\ UNCHANGED <<translation_cache, cache_file, client, call, fp, val, tp, vs, app, pe, wk>>

\* the caller takes the list and may call again
BatchTaken ==
    /\ batch.pc = "done"
    /\ batch' = IdleBatch
    /\ UNCHANGED <<translation_cache, cache_file, client, call, fp, val, tp, vs, app, pe, wk>>

InitBatch == InitTranslate

NextBatch ==
    \/ BatchCall
    \/ BatchItem
    \/ BackendAnswers
    \/ BackendAnswersNone
    \/ BackendRaises
    \/ BatchAppend
    \/ BatchReturn
    \/ BatchTaken

SpecBatch == InitBatch /\ [][NextBatch]_vars

\* C5: translate_batch returns one result per input text, in input order,
\* whether contexts is left out or supplied: when it returns, results is as
\* long as texts and results[i] is what translate returned for texts[i],
\* error sentinels included.
C5_BatchOneResultPerText ==
    batch.pc = "done" =>
        /\ Len(batch.results) = Len(batch.texts)
        /\ \A i \in 1..Len(batch.texts) :
              /\ batch.progress[i].text = batch.texts[i]
              /\ batch.progress[i].translated = batch.results[i]

-----------------------------------------------------------------------------
(* TranslationService._extract_placeholders and validate_translation *)

\* the first index j > i with s[j] = "}", or 0 when there is none
NextClose(s, i) ==
    LET closes == {j \in (i + 1)..Len(s) : s[j] = "}"}
    IN  IF closes = {} THEN 0 ELSE CHOOSE j \in closes : \A k \in closes : j <= k

\* re.findall(r'\{[^}]+\}', text) scanning from index i: the matches, left to
\* right and not overlapping
RECURSIVE FindPlaceholders(_, _)
FindPlaceholders(s, i) ==
    IF i > Len(s) THEN << >>
    ELSE IF s[i] = "{" /\ NextClose(s, i) >= i + 2
         THEN <<SubSeq(s, i, NextClose(s, i))>> \o FindPlaceholders(s, NextClose(s, i) + 1)
         ELSE FindPlaceholders(s, i + 1)

extract_placeholders(text) == FindPlaceholders(text, 1)

\* line 248: not translated or translated.strip() == ''
IsEmptyTranslation(translated) == translated = << >> \/ strip(translated) = << >>

\* the sentinel looked for anywhere in the text
IsErrorMessage_Anywhere(translated) == Contains(translated, S_ErrorSentinel)

\* line 255: translated.startswith('[ERROR:')
IsErrorMessage(translated) == startswith(translated, S_ErrorSentinel)

\* line 265: the two lists of placeholders differ
PlaceholderMismatch(original, translated) ==
    extract_placeholders(original) # extract_placeholders(translated)

\* the limits taken as part of the unusual range
UnusualLengthRatio_Inclusive(original, translated) ==
    /\ Len(original) > 0
    /\ \/ Len(translated) >= 3 * Len(original)
       \/ 10 * Len(translated) <= 3 * Len(original)

\* lines 272-273: length_ratio = len(translated) / len(original), or 1 for an
\* empty original; length_ratio > 3 or length_ratio < 0.3, on exact fractions
UnusualLengthRatio(original, translated) ==
    /\ Len(original) > 0
    /\ \/ Len(translated) > 3 * Len(original)
       \/ 10 * Len(translated) < 3 * Len(original)

\* line 280: original.lower() == translated.lower()
AppearsUnchanged(original, translated) == lower(original) = lower(translated)

Max(a, b) == IF a >= b THEN a ELSE b

W_Placeholder == "Placeholder mismatch"
W_Length == "Unusual length ratio"
W_Unchanged == "Translation appears unchanged"
E_Empty == "Translation is empty"
E_ErrorMessage == "Translation contains error message"

\* validate_translation; the score is kept in tenths (10 is 1.0)
validate_translation(original, translated) ==
    IF IsEmptyTranslation(translated)
    THEN [is_valid |-> FALSE, warnings |-> << >>, errors |-> <<E_Empty>>, score |-> 0]
    ELSE IF IsErrorMessage(translated)
    THEN [is_valid |-> FALSE, warnings |-> << >>, errors |-> <<E_ErrorMessage>>,
          score |-> 0]
    ELSE LET pm == PlaceholderMismatch(original, translated)
             lr == UnusualLengthRatio(original, translated)
             uc == AppearsUnchanged(original, translated)
             w1 == IF pm THEN <<W_Placeholder>> ELSE << >>
             w2 == IF lr THEN <<W_Length>> ELSE << >>
             w3 == IF uc THEN <<W_Unchanged>> ELSE << >>
             s1 == 10 - (IF pm THEN 2 ELSE 0)
             s2 == s1 - (IF lr THEN 1 ELSE 0)
             s3 == s2 - (IF uc THEN 3 ELSE 0)
         IN  [is_valid |-> TRUE, warnings |-> w1 \o w2 \o w3, errors |-> << >>,
              score |-> Max(0, s3)]

\* the texts validate_translation is applied to: up to MaxTokens pieces put
\* together, and the pair of the documented scenario
ValidationTokens ==
    { <<"{","a","}">>, <<"{","A","}">>, <<"x">>, <<" ">>,
      <<"[","E","R","R","O","R",":">>, <<"y","y","y","y","y","y","y">> }

RECURSIVE Flatten(_)
Flatten(ss) == IF ss = << >> THEN << >> ELSE Head(ss) \o Flatten(Tail(ss))

S_ClickButtonNow == <<"C","l","i","c","k"," ","{","b","u","t","t","o","n","}"," ","n","o","w">>
S_ClickNow == <<"C","l","i","c","k"," ","n","o","w">>

ValidationTexts ==
    {Flatten(ss) : ss \in SeqsUpTo(ValidationTokens, MaxTokens)}
        \cup {S_ClickButtonNow, S_ClickNow}

InitValidate ==
    /\ \E original \in ValidationTexts, translated \in ValidationTexts :
         val = [pc |-> "args", original |-> original, translated |-> translated]
    /\ translation_cache = EmptyCache
    /\ cache_file = EmptyCache
    /\ client = FALSE
    /\ call = IdleCall
    /\ app = IdleApp
    /\ pe = IdlePe
    /\ wk = IdleWk
    /\ batch = IdleBatch
    /\ fp = IdleFp
    /\ tp = IdleTp
    /\ vs = IdleVs

Validate ==
    /\ val.pc = "args"
    /\ val' = [pc |-> "done", original |-> val.original, translated |-> val.translated,
               result |-> validate_translation(val.original, val.translated)]
    /\ UNCHANGED <<translation_cache, cache_file, client, call, batch, fp, tp, vs, app, pe, wk>>

NextValidate == Validate

SpecValidate == InitValidate /\ [][NextValidate]_vars

-----------------------------------------------------------------------------
(* Claims about validate_translation *)

ToSet(seq) == {seq[i] : i \in 1..Len(seq)}

IsBlank(t) == \A i \in 1..Len(t) : t[i] \in Whitespace

HardFailure(t) ==
    \/ IsBlank(t)
    \/ (Len(t) >= 7 /\ SubSeq(t, 1, 7) = <<"[","E","R","R","O","R",":">>)

HasWarning(r, w) == \E i \in 1..Len(r.warnings) : r.warnings[i] = w

\* C6: a placeholder mismatch is reported if and only if the SET of "{...}"
\* tokens of the original differs from the SET of "{...}" tokens of the
\* translation (same tokens in another order, or repeated another number of
\* times, give no warning).
C6_PlaceholdersComparedAsSets ==
    (val.pc = "done" /\ ~HardFailure(val.translated)) =>
        (HasWarning(val.result, W_Placeholder)
            <=> ToSet(extract_placeholders(val.original))
                  # ToSet(extract_placeholders(val.translated)))

\* C7: a translation that is empty, whitespace only, or begins with "[ERROR:"
\* gives is_valid false, score 0, exactly one error and no warning, whatever
\* the original; every other translation gives is_valid true and no error.
C7_HardFailures ==
    val.pc = "done" =>
        IF HardFailure(val.translated)
        THEN /\ val.result.is_valid = FALSE
             /\ val.result.score = 0
             /\ Len(val.result.errors) = 1
             /\ val.result.warnings = << >>
        ELSE /\ val.result.is_valid = TRUE
             /\ val.result.errors = << >>

\* C7 witness: a translation that begins with the sentinel is rejected with
\* one error and no warning although the original holds a placeholder the
\* translation lacks.
C7_Witness ==
    /\ val.pc = "done"
    /\ val.original = <<"{","a","}">>
    /\ val.translated = <<"[","E","R","R","O","R",":","x">>
    /\ val.result = [is_valid |-> FALSE, warnings |-> << >>,
                     errors |-> <<E_ErrorMessage>>, score |-> 0]

\* C8: for a translation that is no hard failure the score (in tenths) is
\* max(0, 10 - 2*[placeholder lists differ] - 1*[length ratio < 0.3 or > 3.0]
\* - 3*[equal ignoring case]) with exactly one warning per deduction, in that
\* order; a ratio of exactly 0.3 or 3.0 gives no length warning; the score
\* lies in 0..10; and "Click {button} now" / "Click now" gives a placeholder
\* warning, a score of at most 8 and is_valid true.
C8_SoftScore ==
    (val.pc = "done" /\ ~HardFailure(val.translated)) =>
        LET o == val.original
            t == val.translated
            r == val.result
            pm == extract_placeholders(o) # extract_placeholders(t)
            lr == Len(o) > 0 /\ (10 * Len(t) < 3 * Len(o) \/ Len(t) > 3 * Len(o))
            uc == [i \in 1..Len(o) |-> CharLower(o[i])] = [i \in 1..Len(t) |-> CharLower(t[i])]
            raw == 10 - (IF pm THEN 2 ELSE 0) - (IF lr THEN 1 ELSE 0) - (IF uc THEN 3 ELSE 0)
        IN  /\ r.score = (IF raw < 0 THEN 0 ELSE raw)
            /\ r.score \in 0..10
            /\ r.warnings = (IF pm THEN <<W_Placeholder>> ELSE << >>)
                               \o (IF lr THEN <<W_Length>> ELSE << >>)
                               \o (IF uc THEN <<W_Unchanged>> ELSE << >>)
            /\ (10 * Len(t) = 3 * Len(o) \/ Len(t) = 3 * Len(o))
                  => ~HasWarning(r, W_Length)
            /\ (o = S_ClickButtonNow /\ t = S_ClickNow)
                  => (HasWarning(r, W_Placeholder) /\ r.score <= 8 /\ r.is_valid)

\* C8 witness: a translation exactly 0.3 times as long as its original, with a
\* placeholder lost, scored 0.8 with the placeholder warning alone.
C8_Witness ==
    /\ val.pc = "done"
    /\ Len(val.original) = 10
    /\ Len(val.translated) = 3
    /\ val.result.warnings = <<W_Placeholder>>
    /\ val.result.score = 8

-----------------------------------------------------------------------------
(* LocalizationParser: regular-expression search on keys *)

IndexesOf(s, p) == {i \in 1..(Len(s) - Len(p) + 1) : SubSeq(s, i, i + Len(p) - 1) = p}

MinOf(S) == CHOOSE x \in S : \A y \in S : x <= y
MaxOf(S) == CHOOSE x \in S : \A y \in S : y <= x

\* the last index of the longest run of characters outside stop that starts
\* at i (i - 1 when the run is empty)
RunEnd(s, i, stop) ==
    LET stops == {j \in i..Len(s) : s[j] \in stop}
    IN  IF stops = {} THEN Len(s) ELSE MinOf(stops) - 1

HasAt(s, i, p) == i >= 1 /\ i + Len(p) - 1 <= Len(s) /\ SubSeq(s, i, i + Len(p) - 1) = p

NoMatch == [matched |-> FALSE, group |-> << >>]

S_topicDot == <<"t","o","p","i","c",".">>
S_dialogParen == <<"d","i","a","l","o","g","(">>
S_globalVariableParen == <<"g","l","o","b","a","l","V","a","r","i","a","b","l","e","(">>
S_dotTopicDot == <<".","t","o","p","i","c",".">>
S_dotComponentDot == <<".","c","o","m","p","o","n","e","n","t",".">>
QuoteOrDot == {"'", "."}

\* re.search(r"topic\.([^'\.]+)", key): the leftmost "topic." that a character
\* other than ' and . follows; group 1 is the longest run of such characters
SearchTopic(key) ==
    LET starts == {i \in IndexesOf(key, S_topicDot) :
                      RunEnd(key, i + 6, QuoteOrDot) >= i + 6}
    IN  IF starts = {} THEN NoMatch
        ELSE LET i == MinOf(starts)
             IN  [matched |-> TRUE,
                  group |-> SubSeq(key, i + 6, RunEnd(key, i + 6, QuoteOrDot))]

\* r"dialog\([^.]*\.topic\.([^'\.]+)\)" tried at a "dialog(" at index i: the
\* first "." after it must open ".topic."; group 1 is the run of characters
\* other than ' and . up to its last ")", which must leave it one character
DialogTopicAt(key, i) ==
    LET d == RunEnd(key, i + 7, {"."}) + 1
        c0 == d + 7
        e == RunEnd(key, c0, QuoteOrDot)
        closes == {j \in (c0 + 1)..e : key[j] = ")"}
    IN  IF HasAt(key, d, S_dotTopicDot) /\ closes # {}
        THEN [matched |-> TRUE, group |-> SubSeq(key, c0, MaxOf(closes) - 1)]
        ELSE NoMatch

SearchDialogTopic(key) ==
    LET starts == {i \in IndexesOf(key, S_dialogParen) : DialogTopicAt(key, i).matched}
    IN  IF starts = {} THEN NoMatch ELSE DialogTopicAt(key, MinOf(starts))

\* r"globalVariable\([^.]*\.component\.([^)]+)\)" tried at index i: the first
\* "." must open ".component."; group 1 runs up to the first ")"
GlobalComponentAt(key, i) ==
    LET d == RunEnd(key, i + 15, {"."}) + 1
        c0 == d + 11
        e == RunEnd(key, c0, {")"})
    IN  IF HasAt(key, d, S_dotComponentDot) /\ e >= c0 /\ e < Len(key)
        THEN [matched |-> TRUE, group |-> SubSeq(key, c0, e)]
        ELSE NoMatch

SearchGlobalComponent(key) ==
    LET starts == {i \in IndexesOf(key, S_globalVariableParen) :
                      GlobalComponentAt(key, i).matched}
    IN  IF starts = {} THEN NoMatch ELSE GlobalComponentAt(key, MinOf(starts))

-----------------------------------------------------------------------------
(* LocalizationParser.format_topic_name and extract_topic *)

\* re.sub(r'([a-z])([A-Z])', r'\1 \2', topic)
CamelSplit(s) ==
    Flatten([i \in 1..Len(s) |->
               IF i < Len(s) /\ IsLower(s[i]) /\ IsUpper(s[i + 1])
               THEN <<s[i], " ">> ELSE <<s[i]>>])

\* str.split(): the words between runs of whitespace
RECURSIVE split(_)
split(s) ==
    IF s = << >> THEN << >>
    ELSE IF Head(s) \in Whitespace THEN split(Tail(s))
    ELSE LET e == RunEnd(s, 1, Whitespace)
         IN  <<SubSeq(s, 1, e)>> \o split(Slice(s, e + 1, Len(s)))

\* str.capitalize()
capitalize(w) == [i \in 1..Len(w) |-> IF i = 1 THEN CharUpper(w[i]) ELSE CharLower(w[i])]

Acronyms ==
    { <<"c","o","p","i","l","o","t">>, <<"a","i">>, <<"u","i">>, <<"a","p","i">> }

\* lines 125-131
FormatWord(word) ==
    IF lower(word) \in Acronyms THEN upper(word)
    ELSE IF Len(word) > 1 THEN capitalize(word)
    ELSE upper(word)

\* ' '.join(words)
RECURSIVE JoinSpace(_)
JoinSpace(words) ==
    IF words = << >> THEN << >>
    ELSE IF Len(words) = 1 THEN words[1]
    ELSE words[1] \o <<" ">> \o JoinSpace(Tail(words))

format_topic_name(topic) ==
    LET words == split(CamelSplit(topic))
    IN  JoinSpace([i \in 1..Len(words) |-> FormatWord(words[i])])

\* topic.replace('_', ' ').replace('-', ' ')
CleanTopic(topic) ==
    [i \in 1..Len(topic) |-> IF topic[i] \in {"_", "-"} THEN " " ELSE topic[i]]

S_QuoteGlobalVariable == <<"'","g","l","o","b","a","l","V","a","r","i","a","b","l","e","(">>
S_GlobalVariables == <<"G","l","o","b","a","l"," ","V","a","r","i","a","b","l","e","s">>
S_UnknownTopic == <<"U","n","k","n","o","w","n"," ","T","o","p","i","c">>

\* the topic of a key no pattern matches, with the marker test of line 63 left out
FallbackTopic_NoMarkerTest(key) == S_UnknownTopic

\* lines 62-66 of extract_topic: the topic of a key no pattern matches
FallbackTopic(key) ==
    IF Contains(key, S_QuoteGlobalVariable) THEN S_GlobalVariables ELSE S_UnknownTopic

extract_topic(key) ==
    LET m1 == SearchTopic(key)
        m2 == SearchDialogTopic(key)
        m3 == SearchGlobalComponent(key)
    IN  IF m1.matched THEN format_topic_name(CleanTopic(m1.group))
        ELSE IF m2.matched THEN format_topic_name(CleanTopic(m2.group))
        ELSE IF m3.matched THEN format_topic_name(CleanTopic(m3.group))
        ELSE FallbackTopic(key)

-----------------------------------------------------------------------------
(* extract_topic on one key *)

\* keys of the form <prefix>topic.<name><suffix>
TopicPrefixes ==
    { << >>, <<"'","d","i","a","l","o","g","(">>,
      <<"'","d","i","a","l","o","g","(","c","r",".">>, <<"x",".">> }
TopicNames ==
    { <<"B","i","l","l","i","n","g">>, <<"F","o","o">>,
      <<"O","r","d","e","r","S","t","a","t","u","s">>,
      <<"o","r","d","e","r","_","s","t","a","t","u","s">>,
      <<"m","y","-","a","p","i">>, <<"a">> }
TopicSuffixes ==
    { << >>, <<")">>, <<")",".","C","a","r","d",".","1",".","t","e","x","t">>,
      <<")","'",".","C","a","r","d",".","t","e","x","t">>,
      <<".","C","a","r","d",".","t","e","x","t">>, <<"'",".","t","e","x","t">> }

\* keys that name no topic
OtherKeys ==
    { <<"'","g","l","o","b","a","l","V","a","r","i","a","b","l","e","(","c","r",".","c","o","m","p","o","n","e","n","t",".","C","o","u","n","t","e","r",")",".","D","i","s","p","l","a","y","N","a","m","e">>,
      <<"'","g","l","o","b","a","l","V","a","r","i","a","b","l","e","(","C","o","u","n","t","e","r",")",".","D","i","s","p","l","a","y","N","a","m","e">>,
      <<"i","n","t","r","o",".","t","e","x","t">> }

InitTopic ==
    /\ \/ \E prefix \in TopicPrefixes, name \in TopicNames, suffix \in TopicSuffixes :
            tp = [pc |-> "key", named |-> TRUE, name |-> name,
                  key |-> prefix \o S_topicDot \o name \o suffix]
       \/ \E key \in OtherKeys :
            tp = [pc |-> "key", named |-> FALSE, name |-> << >>, key |-> key]
    /\ translation_cache = EmptyCache
    /\ cache_file = EmptyCache
    /\ client = FALSE
    /\ call = IdleCall
    /\ app = IdleApp
    /\ pe = IdlePe
    /\ wk = IdleWk
    /\ batch = IdleBatch
    /\ fp = IdleFp
    /\ val = IdleVal
    /\ vs = IdleVs

ExtractTopic ==
    /\ tp.pc = "key"
    /\ tp' = [pc |-> "done", named |-> tp.named, name |-> tp.name, key |-> tp.key,
              topic |-> extract_topic(tp.key)]
    /\ UNCHANGED <<translation_cache, cache_file, client, call, batch, fp, val, vs, app, pe, wk>>

NextTopic == ExtractTopic

SpecTopic == InitTopic /\ [][NextTopic]_vars

\* the topic the documentation gives for a name
ExpectedTopic(name) ==
    IF name = <<"B","i","l","l","i","n","g">> THEN <<"B","i","l","l","i","n","g">>
    ELSE IF name = <<"F","o","o">> THEN <<"F","o","o">>
    ELSE IF name = <<"O","r","d","e","r","S","t","a","t","u","s">>
         THEN <<"O","r","d","e","r"," ","S","t","a","t","u","s">>
    ELSE IF name = <<"o","r","d","e","r","_","s","t","a","t","u","s">>
         THEN <<"O","r","d","e","r"," ","S","t","a","t","u","s">>
    ELSE IF name = <<"m","y","-","a","p","i">> THEN <<"M","y"," ","A","P","I">>
    ELSE <<"A">>

\* C9: for every key that contains topic.<name>, the dialog-qualified form in
\* which ")" follows the name included, extract_topic returns exactly the
\* cleaned and formatted <name>, with no character of the surrounding key
\* syntax in it.
C9_TopicIsFormattedName ==
    (tp.pc = "done" /\ tp.named) => tp.topic = ExpectedTopic(tp.name)

-----------------------------------------------------------------------------
(* LocalizationParser.validate_structure *)

S_QuoteDialog == <<"'","d","i","a","l","o","g","(">>
S_QuoteTopic == <<"'","t","o","p","i","c","(">>

\* the markers looked for without their leading apostrophe
HasRootMarker_NoQuote(key) ==
    \/ Contains(key, <<"d","i","a","l","o","g","(">>)
    \/ Contains(key, <<"t","o","p","i","c","(">>)
    \/ Contains(key, <<"g","l","o","b","a","l","V","a","r","i","a","b","l","e","(">>)

\* line 241: "'dialog(" in key or "'topic(" in key or "'globalVariable(" in key
HasRootMarker(key) ==
    \/ Contains(key, S_QuoteDialog)
    \/ Contains(key, S_QuoteTopic)
    \/ Contains(key, S_QuoteGlobalVariable)

\* lines 234-242: the errors of one entry; a key of a parsed JSON object is
\* always a string, so line 235 adds nothing
EntryErrors(entry) ==
    (IF ~entry.value_is_str THEN <<[kind |-> "value", key |-> entry.key]>> ELSE << >>)
    \o (IF ~HasRootMarker(entry.key) THEN <<[kind |-> "format", key |-> entry.key]>>
        ELSE << >>)

\* the cap applied from 10 errors on instead of from 11
CapErrors_FromTen(errors) ==
    IF Len(errors) >= MaxErrorsShown
    THEN SubSeq(errors, 1, MaxErrorsShown) \o <<[kind |-> "more", key |-> << >>]>>
    ELSE errors

\* lines 244-246
CapErrors(errors) ==
    IF Len(errors) > MaxErrorsShown
    THEN SubSeq(errors, 1, MaxErrorsShown) \o <<[kind |-> "more", key |-> << >>]>>
    ELSE errors

\* container: "object" for a JSON object, "other" for any other JSON value,
\* "invalid" for a file json.load rejects
validate_structure(container, mapping) ==
    IF container = "invalid"
    THEN [ok |-> FALSE, errors |-> <<[kind |-> "json", key |-> << >>]>>]
    ELSE IF container # "object"
    THEN [ok |-> FALSE, errors |-> <<[kind |-> "container", key |-> << >>]>>]
    ELSE LET errors == CapErrors(Flatten([i \in 1..Len(mapping) |-> EntryErrors(mapping[i])]))
         IN  [ok |-> Len(errors) = 0, errors |-> errors]

\* the files validate_structure is applied to: entry i, when present, has a
\* key of its own that carries a root marker ("good") or does not ("bad"),
\* and a value that is a string or not
Digits == <<"1","2","3","4","5","6","7","8","9">>
GoodStems ==
    << S_QuoteDialog, S_QuoteTopic, S_QuoteGlobalVariable >>
BadStems ==
    << <<"d","i","a","l","o","g","(">>, <<"e","n","t","r","y">> >>

SlotKey(i, kind) ==
    IF kind = "good" THEN GoodStems[((i - 1) % 3) + 1] \o <<Digits[i]>>
    ELSE BadStems[((i - 1) % 2) + 1] \o <<Digits[i]>>

SlotOptions == {"absent", "good-str", "good-other", "bad-str", "bad-other"}

SlotEntry(i, option) ==
    [key |-> SlotKey(i, IF option \in {"good-str", "good-other"} THEN "good" ELSE "bad"),
     value_is_str |-> option \in {"good-str", "bad-str"}]

RECURSIVE MappingOf(_, _)
MappingOf(slots, i) ==
    IF i > Len(slots) THEN << >>
    ELSE (IF slots[i] = "absent" THEN << >> ELSE <<SlotEntry(i, slots[i])>>)
         \o MappingOf(slots, i + 1)

InitStructure ==
    /\ \/ \E slots \in [1..MaxEntries -> SlotOptions] :
            vs = [pc |-> "file", container |-> "object", mapping |-> MappingOf(slots, 1)]
       \/ \E container \in {"other", "invalid"} :
            vs = [pc |-> "file", container |-> container, mapping |-> << >>]
    /\ translation_cache = EmptyCache
    /\ cache_file = EmptyCache
    /\ client = FALSE
    /\ call = IdleCall
    /\ app = IdleApp
    /\ pe = IdlePe
    /\ wk = IdleWk
    /\ batch = IdleBatch
    /\ fp = IdleFp
    /\ val = IdleVal
    /\ tp = IdleTp

ValidateStructure ==
    /\ vs.pc = "file"
    /\ LET r == validate_structure(vs.container, vs.mapping)
       IN  vs' = [pc |-> "done", container |-> vs.container, mapping |-> vs.mapping,
                  ok |-> r.ok, errors |-> r.errors]
    /\ UNCHANGED <<translation_cache, cache_file, client, call, batch, fp, val, tp, app, pe, wk>>

NextStructure == ValidateStructure

SpecStructure == InitStructure /\ [][NextStructure]_vars

-----------------------------------------------------------------------------
(* Claims about validate_structure *)

HasFormatError(key) ==
    \E j \in 1..Len(vs.errors) : vs.errors[j] = [kind |-> "format", key |-> key]

\* the key holds none of 'dialog(  'topic(  'globalVariable(  apostrophe included
LacksQuotedMarker(key) ==
    \A m \in { <<"'","d","i","a","l","o","g","(">>, <<"'","t","o","p","i","c","(">>,
               <<"'","g","l","o","b","a","l","V","a","r","i","a","b","l","e","(">> } :
        \A i \in 1..Len(key) : ~HasAt(key, i, m)

\* the key holds none of dialog(  topic(  globalVariable(
LacksBareMarker(key) ==
    \A m \in { <<"d","i","a","l","o","g","(">>, <<"t","o","p","i","c","(">>,
               <<"g","l","o","b","a","l","V","a","r","i","a","b","l","e","(">> } :
        \A i \in 1..Len(key) : ~HasAt(key, i, m)

\* how many errors the entries before entry i give, and entry i's value
ErrorsBeforeFormat(i) ==
    Cardinality({j \in 1..(i - 1) : ~vs.mapping[j].value_is_str})
    + Cardinality({j \in 1..(i - 1) : LacksQuotedMarker(vs.mapping[j].key)})
    + (IF vs.mapping[i].value_is_str THEN 0 ELSE 1)

\* C10 as stated: a key has a "doesn't match expected format" error in the
\* returned list if and only if it contains none of dialog(, topic( and
\* globalVariable(, for mappings of any size.
C10_FormatErrorIffNoMarker ==
    (vs.pc = "done" /\ vs.container = "object") =>
        \A i \in 1..Len(vs.mapping) :
            HasFormatError(vs.mapping[i].key) <=> LacksBareMarker(vs.mapping[i].key)

\* C10 amended: a key has a "doesn't match expected format" error in the
\* returned list if and only if it contains none of the markers 'dialog(,
\* 'topic( and 'globalVariable( with their leading apostrophe and fewer than
\* 10 errors were found before it; so every such key has its own error when
\* the file gives at most 10 errors.
C10_FormatErrorIffNoQuotedMarkerWithinCap ==
    (vs.pc = "done" /\ vs.container = "object") =>
        \A i \in 1..Len(vs.mapping) :
            HasFormatError(vs.mapping[i].key)
                <=> (LacksQuotedMarker(vs.mapping[i].key) /\ ErrorsBeforeFormat(i) < 10)

\* C10 witness: a file with more than 10 errors, whose last key lacks a marker
\* and has no error in the returned list, while its first key has one.
C10_Witness ==
    /\ vs.pc = "done"
    /\ vs.container = "object"
    /\ Len(vs.mapping) = 6
    /\ Len(vs.errors) = 11
    /\ HasFormatError(vs.mapping[1].key)
    /\ LacksQuotedMarker(vs.mapping[6].key)
    /\ ~HasFormatError(vs.mapping[6].key)

-----------------------------------------------------------------------------
(* LocalizationParser: extract_context, extract_ui_component,              *)
(* extract_element_type, generate_description, parse_entry                 *)

\* re.search(r"<open>([^)]+)\)", key): the leftmost <open> followed by at
\* least one character other than ")" and then a ")"; group 1 is that run
SearchParen(key, open) ==
    LET n == Len(open)
        starts == {i \in IndexesOf(key, open) :
                      /\ RunEnd(key, i + n, {")"}) >= i + n
                      /\ RunEnd(key, i + n, {")"}) < Len(key)}
    IN  IF starts = {} THEN NoMatch
        ELSE LET i == MinOf(starts)
             IN  [matched |-> TRUE, group |-> SubSeq(key, i + n, RunEnd(key, i + n, {")"}))]

\* re.search(r"<before>(a1|a2|...)<after>", key): the leftmost position where
\* one of the alternatives fits; group 1 is the first alternative that fits there
SearchAlt(key, before, alts, after) ==
    LET fits(i, a) == HasAt(key, i, before \o alts[a] \o after)
        starts == {i \in 1..Len(key) : \E a \in 1..Len(alts) : fits(i, a)}
    IN  IF starts = {} THEN NoMatch
        ELSE LET i == MinOf(starts)
                 a == MinOf({b \in 1..Len(alts) : fits(i, b)})
             IN  [matched |-> TRUE, group |-> alts[a]]

S_actionParen == <<"a","c","t","i","o","n","(">>
S_triggerParen == <<"t","r","i","g","g","e","r","(">>
S_IntentDot == <<"I","n","t","e","n","t",".">>
S_Card == <<"C","a","r","d">>
S_Activity == <<"A","c","t","i","v","i","t","y">>
S_Prompt == <<"P","r","o","m","p","t">>
S_Entity == <<"E","n","t","i","t","y">>
S_Intent == <<"I","n","t","e","n","t">>
S_Dialog == <<"D","i","a","l","o","g">>
S_text == <<"t","e","x","t">>
S_title == <<"t","i","t","l","e">>
S_DisplayName == <<"D","i","s","p","l","a","y","N","a","m","e">>
S_TriggerQueries == <<"T","r","i","g","g","e","r","Q","u","e","r","i","e","s">>
S_Description == <<"D","e","s","c","r","i","p","t","i","o","n">>

\* context_patterns, lines 21-27; a pattern that did not match leaves its
\* attribute out of the dict (matched = FALSE)
extract_context(key) ==
    [action_type |-> SearchParen(key, S_actionParen),
     trigger     |-> SearchParen(key, S_triggerParen),
     component   |-> SearchAlt(key, <<".">>, <<S_Card, S_Activity, S_Prompt, S_Entity>>, <<".">>),
     ui_element  |-> SearchAlt(key, <<".">>, <<S_text, S_title, S_DisplayName>>, << >>),
     intent      |-> SearchAlt(key, S_IntentDot, <<S_DisplayName, S_TriggerQueries>>, << >>)]

components == <<S_Card, S_Activity, S_Prompt, S_Entity, S_Intent, S_Dialog>>

S_GlobalVariable == <<"G","l","o","b","a","l","V","a","r","i","a","b","l","e">>
S_KnowledgeSourceComponent == <<"K","n","o","w","l","e","d","g","e","S","o","u","r","c","e","C","o","m","p","o","n","e","n","t">>
S_KnowledgeSource == <<"K","n","o","w","l","e","d","g","e","S","o","u","r","c","e">>
S_DialogDisplayName == <<"D","i","a","l","o","g","D","i","s","p","l","a","y","N","a","m","e">>
S_Unknown == <<"U","n","k","n","o","w","n">>
S_dotDisplayName == <<".","D","i","s","p","l","a","y","N","a","m","e">>

\* f'.{component}.' in key
HasComponent(key, component) == Contains(key, <<".">> \o component \o <<".">>)

\* the first component of the list whose marker is in the key, as the loop of
\* lines 83-85 finds it
FirstComponent_ByPosition(key) ==
    LET at(c) == IndexesOf(key, <<".">> \o components[c] \o <<".">>)
        present == {c \in 1..Len(components) : at(c) # {}}
    IN  CHOOSE c \in present : \A d \in present : MinOf(at(c)) <= MinOf(at(d))

FirstComponent(key) ==
    MinOf({c \in 1..Len(components) : HasComponent(key, components[c])})

extract_ui_component(key) ==
    LET lowered == lower(key)
    IN  IF \E c \in 1..Len(components) : HasComponent(key, components[c])
        THEN components[FirstComponent(key)]
        ELSE IF Contains(key, S_QuoteGlobalVariable) THEN S_GlobalVariable
        ELSE IF \/ Contains(lowered, <<"k","n","o","w","l","e","d","g","e","s","o","u","r","c","e","c","o","m","p","o","n","e","n","t">>)
                \/ Contains(lowered, <<"k","n","o","w","l","e","d","g","e","_","s","o","u","r","c","e","_","c","o","m","p","o","n","e","n","t">>)
        THEN S_KnowledgeSourceComponent
        ELSE IF \/ Contains(lowered, <<".","k","n","o","w","l","e","d","g","e","b","a","s","e",".">>)
                \/ Contains(lowered, <<"k","n","o","w","l","e","d","g","e","b","a","s","e","(">>)
                \/ Contains(lowered, <<".","k","n","o","w","l","e","d","g","e","s","o","u","r","c","e",".">>)
        THEN S_KnowledgeSource
        ELSE IF /\ endswith(key, S_dotDisplayName)
                /\ Contains(key, S_QuoteDialog)
                /\ ~HasComponent(key, S_Entity)
                /\ ~HasComponent(key, S_Card)
                /\ ~HasComponent(key, S_Activity)
                /\ ~HasComponent(key, S_Prompt)
        THEN S_DialogDisplayName
        ELSE S_Unknown

elements == <<S_text, S_title, S_DisplayName, S_TriggerQueries, S_Description>>

\* the test of line 111 without its second half
ElementApplies_SuffixOnly(key, element) == endswith(key, <<".">> \o element)

\* key.endswith(f'.{element}') or f'.{element}[' in key
ElementApplies(key, element) ==
    \/ endswith(key, <<".">> \o element)
    \/ Contains(key, <<".">> \o element \o <<"[">>)

extract_element_type(key) ==
    LET applying == {e \in 1..Len(elements) : ElementApplies(key, elements[e])}
    IN  IF applying = {} THEN S_text ELSE elements[MinOf(applying)]

S_TopicColon == <<"T","o","p","i","c",":"," ">>
S_ComponentColon == <<"C","o","m","p","o","n","e","n","t",":"," ">>
S_ElementColon == <<"E","l","e","m","e","n","t",":"," ">>
S_TypeColon == <<"T","y","p","e",":"," ">>
S_TypeQuestion == <<"T","y","p","e",":"," ","Q","u","e","s","t","i","o","n">>
S_TypeResponse == <<"T","y","p","e",":"," ","R","e","s","p","o","n","s","e">>
S_TypeMessage == <<"T","y","p","e",":"," ","M","e","s","s","a","g","e">>
S_GeneralEntry == <<"G","e","n","e","r","a","l"," ","l","o","c","a","l","i","z","a","t","i","o","n"," ","e","n","t","r","y">>
S_question_ == <<"q","u","e","s","t","i","o","n","_">>
S_sendActivity_ == <<"s","e","n","d","A","c","t","i","v","i","t","y","_">>
S_sendMessage_ == <<"s","e","n","d","M","e","s","s","a","g","e","_">>
S_Sep == <<" ","|"," ">>

\* " | ".join(parts)
RECURSIVE JoinSep(_)
JoinSep(parts) ==
    IF parts = << >> THEN << >>
    ELSE IF Len(parts) = 1 THEN parts[1]
    ELSE parts[1] \o S_Sep \o JoinSep(Tail(parts))

\* lines 154-164: the clause for an action_type
TypeClause(action) ==
    IF startswith(action, S_question_) THEN S_TypeQuestion
    ELSE IF startswith(action, S_sendActivity_) THEN S_TypeResponse
    ELSE IF startswith(action, S_sendMessage_) THEN S_TypeMessage
    ELSE S_TypeColon \o action

\* parts as it was with the element clause put before the component clause
DescriptionParts_ElementFirst(key) ==
    LET topic == extract_topic(key)
        component == extract_ui_component(key)
        element == extract_element_type(key)
        context == extract_context(key)
    IN  (IF topic # S_UnknownTopic THEN <<S_TopicColon \o topic>> ELSE << >>)
        \o (IF element # S_text THEN <<S_ElementColon \o element>> ELSE << >>)
        \o (IF component # S_Unknown THEN <<S_ComponentColon \o component>> ELSE << >>)
        \o (IF context.action_type.matched
            THEN <<TypeClause(context.action_type.group)>> ELSE << >>)

\* parts as lines 137-164 build it
DescriptionParts(key) ==
    LET topic == extract_topic(key)
        component == extract_ui_component(key)
        element == extract_element_type(key)
        context == extract_context(key)
    IN  (IF topic # S_UnknownTopic THEN <<S_TopicColon \o topic>> ELSE << >>)
        \o (IF component # S_Unknown THEN <<S_ComponentColon \o component>> ELSE << >>)
        \o (IF element # S_text THEN <<S_ElementColon \o element>> ELSE << >>)
        \o (IF context.action_type.matched
            THEN <<TypeClause(context.action_type.group)>> ELSE << >>)

generate_description(key) ==
    LET parts == DescriptionParts(key)
    IN  JoinSep(IF parts = << >> THEN <<S_GeneralEntry>> ELSE parts)

parse_entry(key, value) ==
    [text         |-> value,
     topic        |-> extract_topic(key),
     context      |-> extract_context(key),
     ui_component |-> extract_ui_component(key),
     element_type |-> extract_element_type(key),
     description  |-> generate_description(key)]

-----------------------------------------------------------------------------
(* parse_entry on one entry *)

\* the keys the model classifies: a root, a component path, an action and an
\* ending, each drawn from the forms the rules of the parser tell apart
KeyRoots ==
    { << >>, <<"'","d","i","a","l","o","g","(","t","o","p","i","c",".","B","i","l","l","i","n","g",")">>, <<"'","d","i","a","l","o","g","(","M","a","i","n",")">>,
      <<"'","g","l","o","b","a","l","V","a","r","i","a","b","l","e","(","G","l","o","b","a","l",".","c","o","m","p","o","n","e","n","t",".","N","a","m","e",")">>, <<"'","g","l","o","b","a","l","V","a","r","i","a","b","l","e","(","G",")">>,
      <<"g","l","o","b","a","l","V","a","r","i","a","b","l","e","(","G",")">>, <<"'","t","o","p","i","c",".","u","n","k","n","o","w","n","_","t","o","p","i","c">>,
      <<"'","d","i","a","l","o","g","(","c","r",".","t","o","p","i","c",".","_">> }
KeyPaths ==
    { << >>, <<".","C","a","r","d",".","1">>, <<".","P","r","o","m","p","t",".","C","a","r","d",".","1">>, <<".","A","c","t","i","v","i","t","y",".","D","i","a","l","o","g",".","1">>, <<".","E","n","t","i","t","y",".","e">>,
      <<".","I","n","t","e","n","t",".","i">>, <<".","D","i","a","l","o","g",".","d">>, <<".","k","n","o","w","l","e","d","g","e","B","a","s","e",".","k">>,
      <<".","K","n","o","w","l","e","d","g","e","_","S","o","u","r","c","e","_","C","o","m","p","o","n","e","n","t">>, <<".","c","a","r","d",".","1">> }
KeyActions ==
    { << >>, <<".","a","c","t","i","o","n","(","q","u","e","s","t","i","o","n","_","1",")">>, <<".","a","c","t","i","o","n","(","s","e","n","d","A","c","t","i","v","i","t","y","_","a",")">>,
      <<".","a","c","t","i","o","n","(","s","e","n","d","M","e","s","s","a","g","e","_","m",")">>, <<".","a","c","t","i","o","n","(","s","e","t","V","a","r","i","a","b","l","e",")">> }
KeyEndings ==
    { << >>, <<".","t","e","x","t">>, <<".","t","i","t","l","e">>, <<".","D","i","s","p","l","a","y","N","a","m","e">>, <<".","T","r","i","g","g","e","r","Q","u","e","r","i","e","s">>,
      <<".","D","e","s","c","r","i","p","t","i","o","n">>, <<".","t","e","x","t","[","0","]",".","t","i","t","l","e">>, <<".","t","i","t","l","e","[","1","]",".","x">>, <<".","T","e","x","t">> }
EntryValues == { <<"P","a","y"," ","n","o","w">>, << >> }

InitEntry ==
    /\ \E root \in KeyRoots, path \in KeyPaths, action \in KeyActions,
          ending \in KeyEndings, value \in EntryValues :
            pe = [pc |-> "entry", key |-> root \o path \o action \o ending, value |-> value]
    /\ translation_cache = EmptyCache
    /\ cache_file = EmptyCache
    /\ client = FALSE
    /\ call = IdleCall
    /\ batch = IdleBatch
    /\ fp = IdleFp
    /\ val = IdleVal
    /\ tp = IdleTp
    /\ vs = IdleVs
    /\ app = IdleApp
    /\ wk = IdleWk

ParseEntry ==
    /\ pe.pc = "entry"
    /\ pe' = [pc |-> "parsed", key |-> pe.key, value |-> pe.value,
              entry |-> parse_entry(pe.key, pe.value)]
    /\ UNCHANGED <<translation_cache, cache_file, client, call, batch, fp, val, tp, vs, app, wk>>

NextEntry == ParseEntry

SpecEntry == InitEntry /\ [][NextEntry]_vars

-----------------------------------------------------------------------------
(* Claims about parse_entry *)

Parsed == pe.pc = "parsed"

HasMarker(key, name) == Contains(key, <<".">> \o name \o <<".">>)
ListedComponents == <<S_Card, S_Activity, S_Prompt, S_Entity, S_Intent, S_Dialog>>
NoListedComponent(key) == \A c \in 1..6 : ~HasMarker(key, ListedComponents[c])
IsKnowledgeSourceComponentKey(key) ==
    \/ Contains(lower(key), <<"k","n","o","w","l","e","d","g","e","s","o","u","r","c","e","c","o","m","p","o","n","e","n","t">>)
    \/ Contains(lower(key), <<"k","n","o","w","l","e","d","g","e","_","s","o","u","r","c","e","_","c","o","m","p","o","n","e","n","t">>)
IsKnowledgeSourceKey(key) ==
    \/ Contains(lower(key), <<".","k","n","o","w","l","e","d","g","e","b","a","s","e",".">>)
    \/ Contains(lower(key), <<"k","n","o","w","l","e","d","g","e","b","a","s","e","(">>)
    \/ Contains(lower(key), <<".","k","n","o","w","l","e","d","g","e","s","o","u","r","c","e",".">>)
IsDialogDisplayNameKey(key) ==
    /\ endswith(key, <<".","D","i","s","p","l","a","y","N","a","m","e">>)
    /\ Contains(key, <<"'","d","i","a","l","o","g","(">>)
    /\ ~HasMarker(key, S_Entity) /\ ~HasMarker(key, S_Card)
    /\ ~HasMarker(key, S_Activity) /\ ~HasMarker(key, S_Prompt)
ComponentTags ==
    { S_Card, S_Activity, S_Prompt, S_Entity, S_Intent, S_Dialog, S_GlobalVariable,
      S_KnowledgeSourceComponent, S_KnowledgeSource, S_DialogDisplayName, S_Unknown }

\* C15: extract_ui_component returns the result of the first applicable rule:
\* the first of Card, Activity, Prompt, Entity, Intent, Dialog (in that order,
\* not by position in the key) whose '.<Name>.' is in the key; else
\* GlobalVariable when the marker "'globalVariable(" is in the key; else
\* KnowledgeSourceComponent; else KnowledgeSource; else DialogDisplayName for a
\* key that ends with '.DisplayName' and holds the dialog marker; else Unknown.
\* The result is always one of the eleven tags.
C15_ComponentByRuleOrder ==
    Parsed =>
        LET key == pe.key
            r == pe.entry.ui_component
            gv == Contains(key, <<"'","g","l","o","b","a","l","V","a","r","i","a","b","l","e","(">>)
            ksc == IsKnowledgeSourceComponentKey(key)
            ks == IsKnowledgeSourceKey(key)
        IN  /\ r \in ComponentTags
            /\ \A c \in 1..6 :
                  r = ListedComponents[c]
                    <=> /\ HasMarker(key, ListedComponents[c])
                        /\ \A d \in 1..(c - 1) : ~HasMarker(key, ListedComponents[d])
            /\ r = S_GlobalVariable <=> NoListedComponent(key) /\ gv
            /\ r = S_KnowledgeSourceComponent <=> NoListedComponent(key) /\ ~gv /\ ksc
            /\ r = S_KnowledgeSource <=> NoListedComponent(key) /\ ~gv /\ ~ksc /\ ks
            /\ r = S_DialogDisplayName
                  <=> NoListedComponent(key) /\ ~gv /\ ~ksc /\ ~ks /\ IsDialogDisplayNameKey(key)

\* a key where '.Prompt.' stands before '.Card.' has been classified as Card
C15_Witness ==
    /\ Parsed
    /\ Contains(pe.key, <<".","P","r","o","m","p","t",".","C","a","r","d",".">>)
    /\ pe.entry.ui_component = S_Card

WithSep(a, b) ==
    IF a = << >> THEN b ELSE IF b = << >> THEN a ELSE a \o <<" ","|"," ">> \o b
TopicClauseOf(e) ==
    IF e.topic = <<"U","n","k","n","o","w","n"," ","T","o","p","i","c">> THEN << >> ELSE <<"T","o","p","i","c",":"," ">> \o e.topic
ComponentClauseOf(e) ==
    IF e.ui_component = <<"U","n","k","n","o","w","n">> THEN << >> ELSE <<"C","o","m","p","o","n","e","n","t",":"," ">> \o e.ui_component
ElementClauseOf(e) ==
    IF e.element_type = <<"t","e","x","t">> THEN << >> ELSE <<"E","l","e","m","e","n","t",":"," ">> \o e.element_type
TypeClauseOf(e) ==
    LET a == e.context.action_type
    IN  IF ~a.matched THEN << >>
        ELSE IF startswith(a.group, <<"q","u","e","s","t","i","o","n","_">>) THEN <<"T","y","p","e",":"," ","Q","u","e","s","t","i","o","n">>
        ELSE IF startswith(a.group, <<"s","e","n","d","A","c","t","i","v","i","t","y","_">>) THEN <<"T","y","p","e",":"," ","R","e","s","p","o","n","s","e">>
        ELSE IF startswith(a.group, <<"s","e","n","d","M","e","s","s","a","g","e","_">>) THEN <<"T","y","p","e",":"," ","M","e","s","s","a","g","e">>
        ELSE <<"T","y","p","e",":"," ">> \o a.group
NoClauseApplies(e) ==
    /\ TopicClauseOf(e) = << >> /\ ComponentClauseOf(e) = << >>
    /\ ElementClauseOf(e) = << >> /\ TypeClauseOf(e) = << >>

\* C16: the description is the ' | '-join, in the order topic, component,
\* element, type, of exactly the clauses that apply to the entry, and it is
\* 'General localization entry' exactly when no clause applies.
C16_DescriptionJoinsClausesInOrder ==
    Parsed =>
        LET e == pe.entry
        IN  /\ e.description = <<"G","e","n","e","r","a","l"," ","l","o","c","a","l","i","z","a","t","i","o","n"," ","e","n","t","r","y">> <=> NoClauseApplies(e)
            /\ ~NoClauseApplies(e) =>
                  e.description =
                      WithSep(WithSep(WithSep(TopicClauseOf(e), ComponentClauseOf(e)),
                                      ElementClauseOf(e)), TypeClauseOf(e))

\* an entry with all four clauses has been described
C16_Witness ==
    /\ Parsed
    /\ pe.key = <<"'","d","i","a","l","o","g","(","t","o","p","i","c",".","B","i","l","l","i","n","g",")",".","C","a","r","d",".","1",".","a","c","t","i","o","n","(","q","u","e","s","t","i","o","n","_","1",")",".","t","i","t","l","e">>
    /\ pe.entry.description = <<"T","o","p","i","c",":"," ","B","i","l","l","i","n","g",")"," ","|"," ","C","o","m","p","o","n","e","n","t",":"," ","C","a","r","d"," ","|"," ","E","l","e","m","e","n","t",":"," ","t","i","t","l","e"," ","|"," ","T","y","p","e",":"," ","Q","u","e","s","t","i","o","n">>

NoTopicPattern(key) ==
    /\ ~SearchTopic(key).matched
    /\ ~SearchDialogTopic(key).matched
    /\ ~SearchGlobalComponent(key).matched

\* C17: parse_entry returns a record for every key; when none of the three
\* topic patterns matches, the topic is 'Global Variables' if the key holds
\* the marker "'globalVariable(" and 'Unknown Topic' otherwise; the text field is
\* the input value unchanged.
C17_ClassificationNeverFails ==
    Parsed =>
        /\ DOMAIN pe.entry =
              {"text", "topic", "context", "ui_component", "element_type", "description"}
        /\ pe.entry.text = pe.value
        /\ NoTopicPattern(pe.key) =>
              pe.entry.topic = IF Contains(pe.key, <<"'","g","l","o","b","a","l","V","a","r","i","a","b","l","e","(">>)
                               THEN <<"G","l","o","b","a","l"," ","V","a","r","i","a","b","l","e","s">> ELSE <<"U","n","k","n","o","w","n"," ","T","o","p","i","c">>

\* a global-variable key that no topic pattern matches has been classified
C17_Witness ==
    /\ Parsed
    /\ NoTopicPattern(pe.key)
    /\ Contains(pe.key, <<"'","g","l","o","b","a","l","V","a","r","i","a","b","l","e","(">>)
    /\ pe.entry.topic = <<"G","l","o","b","a","l"," ","V","a","r","i","a","b","l","e","s">>
    /\ pe.entry.text = <<"P","a","y"," ","n","o","w">>

Candidates == <<<<"t","e","x","t">>, <<"t","i","t","l","e">>, <<"D","i","s","p","l","a","y","N","a","m","e">>, <<"T","r","i","g","g","e","r","Q","u","e","r","i","e","s">>, <<"D","e","s","c","r","i","p","t","i","o","n">>>>
CandidateApplies(key, c) ==
    \/ endswith(key, <<".">> \o Candidates[c])
    \/ Contains(key, <<".">> \o Candidates[c] \o <<"[">>)

\* C18: extract_element_type returns the first candidate, in the order text,
\* title, DisplayName, TriggerQueries, Description, for which the key ends
\* with '.<candidate>' or contains '.<candidate>[', and 'text' when none applies.
C18_ElementByCandidateOrder ==
    Parsed =>
        LET key == pe.key
            r == pe.entry.element_type
        IN  /\ (\A c \in 1..5 : ~CandidateApplies(key, c)) => r = <<"t","e","x","t">>
            /\ \A c \in 1..5 :
                  (CandidateApplies(key, c) /\ \A d \in 1..(c - 1) : ~CandidateApplies(key, d))
                      => r = Candidates[c]

\* a key that ends in '.title' and contains '.text[' has been given 'text'
C18_Witness ==
    /\ Parsed
    /\ endswith(pe.key, <<".","t","i","t","l","e">>)
    /\ Contains(pe.key, <<".","t","e","x","t","[">>)
    /\ pe.entry.element_type = <<"t","e","x","t">>

-----------------------------------------------------------------------------
(* Claims about the error list of validate_structure *)

\* how many errors lines 233-242 find in the mapping, before the cap
ErrorsFound ==
    Cardinality({j \in 1..Len(vs.mapping) : ~vs.mapping[j].value_is_str})
    + Cardinality({j \in 1..Len(vs.mapping) : LacksQuotedMarker(vs.mapping[j].key)})

HasMoreMarker == \E j \in 1..Len(vs.errors) : vs.errors[j].kind = "more"

\* C19: ok is true if and only if the returned error list is empty; the list
\* never holds more than 10 errors plus one trailing 'showing first 10' marker;
\* the marker is present exactly when more than 10 errors were found; a
\* container that is not an object gives exactly one error and no per-entry
\* errors.
C19_ErrorListCappedAndOkIffEmpty ==
    vs.pc = "done" =>
        /\ vs.ok <=> vs.errors = << >>
        /\ Cardinality({j \in 1..Len(vs.errors) : vs.errors[j].kind # "more"}) <= 10
        /\ \A j \in 1..Len(vs.errors) :
              vs.errors[j].kind = "more" => (j = Len(vs.errors) /\ j = 11)
        /\ vs.container = "object" => (HasMoreMarker <=> ErrorsFound > 10)
        /\ vs.container # "object" =>
              /\ Len(vs.errors) = 1
              /\ vs.errors[1].kind \in {"container", "json"}
              /\ ~vs.ok

\* a file in which more than 10 errors were found has been validated: 10
\* errors and the marker are returned
C19_Witness ==
    /\ vs.pc = "done"
    /\ vs.container = "object"
    /\ ErrorsFound > 10
    /\ Len(vs.errors) = 11
    /\ vs.errors[11].kind = "more"
    /\ ~vs.ok

-----------------------------------------------------------------------------
(* translate called with each of the styles *)

AllStyles == { S_formal, S_conversational, S_chatbot, <<"s","l","a","n","g">> }

TranslateCallStyled ==
    /\ \E text \in Texts, target_language \in Languages, style \in AllStyles,
          max_retries \in 0..1 :
         /\ CacheHasRoom(text, target_language, style, << >>)
         /\ TranslateEnter(text, target_language, style, << >>, max_retries)
    /\ UNCHANGED <<batch, fp, val, tp, vs, app, pe, wk>>

InitStyled == InitTranslate

NextStyled ==
    \/ TranslateCallStyled
    \/ BackendAnswers
    \/ BackendAnswersNone
    \/ BackendRaises
    \/ LoopExhausted
    \/ TranslateReturn

SpecStyled == InitStyled /\ [][NextStyled]_vars

-----------------------------------------------------------------------------
(* Claims about the mock path of translate *)

MockTag(style) ==
    CASE style = <<"f","o","r","m","a","l">> -> <<"[","F","O","R","M","A","L","]">>
      [] style = <<"c","o","n","v","e","r","s","a","t","i","o","n","a","l">> -> <<"[","C","O","N","V","]">>
      [] style = <<"c","h","a","t","b","o","t">> -> <<"[","B","O","T","]">>
      [] OTHER -> <<"[","T","R","A","N","S","]">>

UpperCased(language) ==
    CASE language = <<"S","p","a","n","i","s","h">> -> <<"S","P","A","N","I","S","H">>
      [] OTHER -> language

\* C14: with no backend client configured and the request not in the cache,
\* translate returns '<TAG> <text> [<TARGET_LANGUAGE upper-cased>]' with TAG =
\* [FORMAL], [CONV] or [BOT] for the three known styles and [TRANS] for any
\* other style, and no backend call is made.
C14_MockWhenNoClient ==
    (~client /\ call.pc # "idle" /\ ~CacheHit(CallKey(call), translation_cache)) =>
        /\ call.pc = "done"
        /\ call.backend_calls = 0
        /\ call.outcomes = << >>
        /\ call.result = MockTag(call.style) \o <<" ">> \o call.text
                            \o <<" ","[">> \o UpperCased(call.target_language) \o <<"]">>

\* ('Pay now', 'Spanish', 'formal') has been answered '[FORMAL] Pay now [SPANISH]'
C14_Witness ==
    /\ ~client
    /\ call.pc = "done"
    /\ call.text = <<"P","a","y"," ","n","o","w">>
    /\ call.style = <<"f","o","r","m","a","l">>
    /\ call.result = <<"[","F","O","R","M","A","L","]"," ","P","a","y"," ","n","o","w"," ","[","S","P","A","N","I","S","H","]">>
    /\ call.backend_calls = 0

\* a request of an unknown style has been answered with the [TRANS] tag
C14_WitnessOtherStyle ==
    /\ ~client
    /\ call.pc = "done"
    /\ call.style = <<"s","l","a","n","g">>
    /\ call.result = <<"[","T","R","A","N","S","]"," ","O","k"," ","[","S","P","A","N","I","S","H","]">>

-----------------------------------------------------------------------------
(* CopilotTranslator: the application state and its handlers               *)
(* An ordered dict is a sequence of records in insertion order.            *)

MaxTranslations == 2

S_English == <<"E","n","g","l","i","s","h">>
S_Spanish == <<"S","p","a","n","i","s","h">>
AppLanguages == { S_English, S_Spanish }

K_Card == <<"'","d","i","a","l","o","g","(","t","o","p","i","c",".","B","i","l","l","i","n","g",")",".","C","a","r","d",".","1",".","t","e","x","t">>
K_Global == <<"'","g","l","o","b","a","l","V","a","r","i","a","b","l","e","(","G","l","o","b","a","l",".","c","o","m","p","o","n","e","n","t",".","N","a","m","e",")">>
K_Plain == <<"e","n","t","r","y">>

\* the files the user can pick: JSON objects as their (key, value) pairs in
\* file order, a JSON array, and a file that is not JSON
Files ==
    << [container |-> "object",
        mapping |-> << [key |-> K_Card, value |-> <<"P","a","y"," ","n","o","w">>],
                       [key |-> K_Global, value |-> <<"O","k">>] >>],
       [container |-> "object",
        mapping |-> << [key |-> K_Global, value |-> <<"O","k">>],
                       [key |-> K_Card, value |-> <<"O","k">>] >>],
       [container |-> "object",
        mapping |-> << [key |-> K_Plain, value |-> <<"O","k">>],
                       [key |-> K_Card, value |-> <<"P","a","y"," ","n","o","w">>] >>],
       [container |-> "other", mapping |-> << >>],
       [container |-> "invalid", mapping |-> << >>] >>

\* what the edit dialog hands to on_translation_edit (the text box, stripped)
EditTexts == { << >>, <<"H","i">> }

KeysOf(d) == {d[i].key : i \in 1..Len(d)}
IndexOf(d, key) == CHOOSE i \in 1..Len(d) : d[i].key = key

\* LocalizationParser.load_file, lines 34-39: every entry of the object parsed
parser_load_file(mapping) ==
    [i \in 1..Len(mapping) |->
        [key |-> mapping[i].key, entry |-> parse_entry(mapping[i].key, mapping[i].value)]]

S_dotGlobalVariablesDot == <<".","G","l","o","b","a","l","V","a","r","i","a","b","l","e","s",".">>

is_global_variable(key, meta) ==
    \/ Contains(key, S_QuoteGlobalVariable)
    \/ Contains(key, S_dotGlobalVariablesDot)
    \/ meta.topic = S_GlobalVariables
    \/ meta.ui_component = S_GlobalVariable

\* the filter of lines 855-857 left out: every entry is visible
VisibleOf_KeepsAll(data) == data

\* lines 855-857: the dict comprehension keeps the order of localization_data
VisibleOf(data) ==
    SelectSeq(data, LAMBDA e : ~is_global_variable(e.key, e.entry))

\* if key not in self.translated_data: self.translated_data[key] = {}
\* self.translated_data[key][language] = text
StoreTranslation(td, key, language, text) ==
    LET put(langs) == [l \in DOMAIN langs \cup {language} |->
                          IF l = language THEN text ELSE langs[l]]
    IN  IF key \in KeysOf(td)
        THEN [i \in 1..Len(td) |->
                 IF td[i].key = key THEN [key |-> key, langs |-> put(td[i].langs)] ELSE td[i]]
        ELSE Append(td, [key |-> key, langs |-> put([l \in {} |-> << >>])])

\* lang_map.get(current_lang), None as the empty text: both are falsy in
\* lines 1106 and 1112
LangGet(langs, language) == IF language \in DOMAIN langs THEN langs[language] ELSE << >>

\* the value exported for an original key, an empty translation kept
ExportValue_KeepsEmpty(td, key, original_text, language) ==
    IF key \in KeysOf(td) /\ language \in DOMAIN td[IndexOf(td, key)].langs
    THEN td[IndexOf(td, key)].langs[language]
    ELSE original_text

\* lines 1102-1106
ExportValue(td, key, original_text, language) ==
    LET translated_text == IF key \in KeysOf(td)
                           THEN LangGet(td[IndexOf(td, key)].langs, language)
                           ELSE << >>
    IN  IF translated_text # << >> THEN translated_text ELSE original_text

\* lines 1096-1113: export_data
ExportData(ld, td, language) ==
    LET originals == [i \in 1..Len(ld) |->
                         [key |-> ld[i].key,
                          value |-> ExportValue(td, ld[i].key, ld[i].entry.text, language)]]
        extras == SelectSeq(td, LAMBDA e : /\ e.key \notin KeysOf(ld)
                                           /\ LangGet(e.langs, language) # << >>)
    IN  originals \o [i \in 1..Len(extras) |->
                         [key |-> extras[i].key, value |-> LangGet(extras[i].langs, language)]]

NoItem == [active |-> FALSE, key |-> << >>]

AppInit ==
    app = [pc |-> "ready",
           localization_data |-> << >>,
           visible_localization_data |-> << >>,
           translated_data |-> << >>,
           current_file |-> 0,
           target_language |-> S_English,
           translation_style |-> S_formal,
           item |-> NoItem,
           since_load |-> "nothing",
           export_data |-> << >>]

\* the service starts with no cache file to load
InitApp ==
    /\ translation_cache = EmptyCache
    /\ cache_file = EmptyCache
    /\ client \in BOOLEAN
    /\ call = IdleCall
    /\ AppInit
    /\ batch = IdleBatch
    /\ fp = IdleFp
    /\ val = IdleVal
    /\ tp = IdleTp
    /\ vs = IdleVs
    /\ pe = IdlePe
    /\ wk = IdleWk

\* parser.load_file(file_path) for each of the files
ParsedFiles == [f \in 1..Len(Files) |-> parser_load_file(Files[f].mapping)]

\* load_file, lines 837-878, for the file the user picked; a file that is not
\* a JSON object makes parser.load_file raise, which line 875 catches with
\* nothing assigned
LoadFile ==
    /\ app.pc = "ready"
    /\ ~app.item.active
    /\ \E f \in 1..Len(Files) :
         IF Files[f].container = "object"
         THEN app' = [app EXCEPT !.localization_data = ParsedFiles[f],
                                 !.visible_localization_data = VisibleOf(ParsedFiles[f]),
                                 !.current_file = f,
                                 !.since_load = "nothing"]
         ELSE app' = app
    /\ UNCHANGED <<translation_cache, cache_file, client, call, batch, fp, val, tp, vs, pe, wk>>

\* how many (key, language) translations translated_data holds
PairCount(td) ==
    Cardinality({<<i, l>> \in (1..Len(td)) \X AppLanguages : l \in DOMAIN td[i].langs})

\* the model stops adding translations once translated_data holds
\* MaxTranslations of them
HasRoomFor(key, language) ==
    \/ /\ key \in KeysOf(app.translated_data)
       /\ language \in DOMAIN app.translated_data[IndexOf(app.translated_data, key)].langs
    \/ PairCount(app.translated_data) < MaxTranslations

\* lines 975-982: a worker of translate_all / translate_selected takes a key
\* and calls translate with the entry's text and topic
WorkerTakesItem ==
    /\ app.pc = "ready"
    /\ ~app.item.active
    /\ \E key \in KeysOf(app.visible_localization_data) :
         LET meta == app.visible_localization_data[IndexOf(app.visible_localization_data, key)].entry
         IN  /\ HasRoomFor(key, app.target_language)
             /\ CacheHasRoom(meta.text, app.target_language, app.translation_style, meta.topic)
             /\ TranslateEnter(meta.text, app.target_language, app.translation_style,
                               meta.topic, DefaultMaxRetries)
             /\ app' = [app EXCEPT !.item = [active |-> TRUE, key |-> key]]
    /\ UNCHANGED <<batch, fp, val, tp, vs, pe, wk>>

\* lines 983-985: translate has returned and the worker stores the result
WorkerStoresItem ==
    /\ app.item.active
    /\ call.pc = "done"
    /\ app' = [app EXCEPT !.translated_data =
                              StoreTranslation(app.translated_data, app.item.key,
                                               app.target_language, call.result),
                          !.item = NoItem,
                          !.since_load = "changed"]
    /\ call' = IdleCall
    /\ UNCHANGED <<translation_cache, cache_file, client, batch, fp, val, tp, vs, pe, wk>>

\* on_translation_edit, lines 1074-1078, for a row of the table
OnTranslationEdit ==
    /\ app.pc = "ready"
    /\ ~app.item.active
    /\ \E key \in KeysOf(app.visible_localization_data), new_translation \in EditTexts :
         /\ HasRoomFor(key, app.target_language)
         /\ app' = [app EXCEPT !.translated_data =
                                   StoreTranslation(app.translated_data, key,
                                                    app.target_language, new_translation),
                               !.since_load = "changed"]
    /\ UNCHANGED <<translation_cache, cache_file, client, call, batch, fp, val, tp, vs, pe, wk>>

\* clear_translations, lines 1139-1145, confirmed by the user
ClearTranslations ==
    /\ app.pc = "ready"
    /\ ~app.item.active
    /\ app.translated_data # << >>
    /\ app' = [app EXCEPT !.translated_data = << >>]
    /\ UNCHANGED <<translation_cache, cache_file, client, call, batch, fp, val, tp, vs, pe, wk>>

\* the user picks another target language
SetTargetLanguage ==
    /\ app.pc = "ready"
    /\ ~app.item.active
    /\ \E language \in AppLanguages \ {app.target_language} :
         app' = [app EXCEPT !.target_language = language]
    /\ UNCHANGED <<translation_cache, cache_file, client, call, batch, fp, val, tp, vs, pe, wk>>

\* export_file, lines 1080-1120, with a file name chosen
ExportFile ==
    /\ app.pc = "ready"
    /\ ~app.item.active
    /\ app.localization_data # << >>
    /\ app' = [app EXCEPT !.pc = "exported",
                          !.export_data = ExportData(app.localization_data,
                                                     app.translated_data,
                                                     app.target_language),
                          !.since_load = app.since_load]
    /\ UNCHANGED <<translation_cache, cache_file, client, call, batch, fp, val, tp, vs, pe, wk>>

\* the user dismisses the 'Export Complete' box
ExportReturn ==
    /\ app.pc = "exported"
    /\ app' = [app EXCEPT !.pc = "ready", !.export_data = << >>]
    /\ UNCHANGED <<translation_cache, cache_file, client, call, batch, fp, val, tp, vs, pe, wk>>

\* the handlers of the application; while it runs, a configured backend is
\* out of reach, so every backend call of a worker raises
NextApp ==
    \/ LoadFile
    \/ WorkerTakesItem
    \/ BackendRaises
    \/ WorkerStoresItem
    \/ OnTranslationEdit
    \/ ClearTranslations
    \/ SetTargetLanguage
    \/ ExportFile
    \/ ExportReturn

SpecApp == InitApp /\ [][NextApp]_vars

-----------------------------------------------------------------------------
(* Claims about load_file and export_file *)

Exported == app.pc = "exported"

\* the file as validate_structure sees it: every value of Files is a string
StructureOf(file) ==
    [i \in 1..Len(file.mapping) |-> [key |-> file.mapping[i].key, value_is_str |-> TRUE]]

PassesValidation(file) == validate_structure(file.container, StructureOf(file)).ok

\* C11: a file whose mapping fails structure validation is never classified:
\* localization_data (and with it the table) is populated from a file only when
\* validate_structure returns ok = true for that file.
C11_ClassifiedOnlyIfValid ==
    app.current_file # 0 => PassesValidation(Files[app.current_file])

\* the current-language translation of a key, when translated_data holds one
\* that is not empty
HasTranslation(key) ==
    \E i \in 1..Len(app.translated_data) :
        /\ app.translated_data[i].key = key
        /\ app.target_language \in DOMAIN app.translated_data[i].langs
        /\ app.translated_data[i].langs[app.target_language] # << >>

TranslationOf(key) ==
    LET i == CHOOSE j \in 1..Len(app.translated_data) : app.translated_data[j].key = key
    IN  app.translated_data[i].langs[app.target_language]

\* the positions of translated_data whose key is not an original key and has
\* a non-empty current-language value
ExtraPositions ==
    {i \in 1..Len(app.translated_data) :
        /\ \A j \in 1..Len(app.localization_data) :
              app.localization_data[j].key # app.translated_data[i].key
        /\ HasTranslation(app.translated_data[i].key)}

\* C12: the exported mapping lists every original key in load order, with the
\* key's current-language translation when that is present and non-empty and
\* the original text otherwise; the keys found only in translated_data follow,
\* in their order, and only those with a non-empty current-language value.
C12_ExportMapping ==
    Exported =>
        LET out == app.export_data
            n == Len(app.localization_data)
        IN  /\ Len(out) = n + Cardinality(ExtraPositions)
            /\ \A i \in 1..n :
                  /\ out[i].key = app.localization_data[i].key
                  /\ out[i].value = IF HasTranslation(out[i].key)
                                    THEN TranslationOf(out[i].key)
                                    ELSE app.localization_data[i].entry.text
            /\ \A p \in ExtraPositions :
                  LET i == n + Cardinality({q \in ExtraPositions : q <= p})
                  IN  /\ out[i].key = app.translated_data[p].key
                      /\ out[i].value = TranslationOf(out[i].key)

\* an export in which an original key carries its translation and a key of
\* an earlier file follows the original ones
C12_Witness ==
    /\ Exported
    /\ Len(app.export_data) > Len(app.localization_data)
    /\ \E i \in 1..Len(app.localization_data) :
          /\ HasTranslation(app.localization_data[i].key)
          /\ app.export_data[i].value # app.localization_data[i].entry.text

\* an export that writes an '[ERROR:' sentinel stored by a failed translation
C12_WitnessSentinel ==
    /\ Exported
    /\ \E i \in 1..Len(app.export_data) : startswith(app.export_data[i].value, <<"[","E","R","R","O","R",":">>)

\* an export that falls back to the original text of a key whose stored
\* translation is empty
C12_WitnessEmpty ==
    /\ Exported
    /\ \E i \in 1..Len(app.localization_data) :
          /\ app.localization_data[i].key \in KeysOf(app.translated_data)
          /\ ~HasTranslation(app.localization_data[i].key)
          /\ app.target_language
                \in DOMAIN app.translated_data[IndexOf(app.translated_data,
                                                       app.localization_data[i].key)].langs
          /\ app.export_data[i].value = app.localization_data[i].entry.text

\* C13: exporting right after a load, with no translate and no edit since that
\* load, gives exactly the loaded file's keys, in the same order, each with its
\* original value.
C13_ExportAfterLoadIsTheFile ==
    (Exported /\ app.since_load = "nothing") =>
        app.export_data = Files[app.current_file].mapping

-----------------------------------------------------------------------------
(* CopilotTranslator._translate_batch_parallel: the worker threads, one    *)
(* step per statement that reads or writes state other threads can see     *)

MaxKeys == 2
WorkerCap == 5

\* the entries a batch is started on: the visible entries of the third file
\* of Files
BatchData == VisibleOf(ParsedFiles[3])

\* the state of the two buttons that start a batch and of the Stop button
Normal == "normal"
Disabled == "disabled"

\* the keys handed to _translate_batch_parallel by translate_all or
\* translate_selected
BatchKeyLists ==
    { keys \in SeqsUpTo(KeysOf(BatchData), MaxKeys) :
        keys # << >> /\ \A i, j \in 1..Len(keys) : i # j => keys[i] # keys[j] }

\* line 958
max_workers(keys) == Min(WorkerCap, Max(1, Len(keys)))

\* what the backend answers a worker with
WorkerContents == { <<"H","o","l","a">> }

\* the cache file while a write to it is unfinished or was cut short: not JSON
PartialFile == [k \in {<<"partial">>} |-> << >>]

\* a worker thread of the first batch before its first poll of the flag
IdleThread ==
    [pc |-> "start", batch |-> 1, key |-> << >>, call |-> IdleCall, seen |-> {}, done |-> 0]

\* translate_all / translate_selected and _translate_batch_parallel, lines
\* 885-899 and 958-1007, on the application state w for the entries data and
\* the keys of the batch: the flag and the counters are reset, the buttons
\* set, the queue filled, the workers started and the consumer scheduled
StartedBatch(w, data, keys) ==
    LET b == Len(w.work_q) + 1
        n == Len(w.threads)
    IN  [w EXCEPT !.pc = "running",
                  !.data = data,
                  !.keys = keys,
                  !.work_q = Append(w.work_q, keys),
                  !.threads = [t \in 1..(n + max_workers(keys)) |->
                                  IF t <= n THEN w.threads[t]
                                  ELSE [IdleThread EXCEPT !.batch = b]],
                  !.parallel_total = Len(keys),
                  !.parallel_done = 0,
                  !.cancel_requested = FALSE,
                  !.complete_event_sent = FALSE,
                  !.cancel_event_sent = FALSE,
                  !.translate_btn = Disabled,
                  !.cancel_btn = Normal,
                  !.polling = TRUE]

\* the application with a file loaded and no batch started yet
NoBatch ==
    [pc |-> "ready",
     data |-> << >>,
     keys |-> << >>,
     work_q |-> << >>,
     threads |-> << >>,
     target_language |-> S_Spanish,
     translation_style |-> S_formal,
     translated_data |-> << >>,
     progress_queue |-> << >>,
     table |-> << >>,
     parallel_total |-> 0,
     parallel_done |-> 0,
     cancel_requested |-> FALSE,
     complete_event_sent |-> FALSE,
     cancel_event_sent |-> FALSE,
     translate_btn |-> Normal,
     cancel_btn |-> Disabled,
     polling |-> FALSE]

Threads == DOMAIN wk.threads

\* thread t moves to th
Moves(t, th) == [wk EXCEPT !.threads[t] = th]

InitWorkers ==
    /\ \E keys \in BatchKeyLists : wk = StartedBatch(NoBatch, BatchData, keys)
    /\ translation_cache = EmptyCache
    /\ cache_file = EmptyCache
    /\ client \in BOOLEAN
    /\ call = IdleCall
    /\ batch = IdleBatch
    /\ fp = IdleFp
    /\ val = IdleVal
    /\ tp = IdleTp
    /\ vs = IdleVs
    /\ app = IdleApp
    /\ pe = IdlePe

\* line 969: while not self._cancel_requested
WorkerChecksCancel ==
    /\ \E t \in Threads :
         /\ wk.threads[t].pc = "start"
         /\ wk' = Moves(t, [wk.threads[t] EXCEPT
                               !.pc = IF wk.cancel_requested THEN "finish" ELSE "get"])
    /\ UNCHANGED <<translation_cache, cache_file, client, call, batch, fp, val, tp, vs, app, pe>>

\* lines 970-973: work_q.get_nowait()
WorkerGetsKey ==
    /\ \E t \in Threads :
         LET work_q == wk.work_q[wk.threads[t].batch]
         IN  /\ wk.threads[t].pc = "get"
             /\ IF work_q = << >>
                THEN wk' = Moves(t, [wk.threads[t] EXCEPT !.pc = "finish"])
                ELSE wk' = [wk EXCEPT !.work_q[wk.threads[t].batch] = Tail(work_q),
                                      !.threads[t] = [wk.threads[t] EXCEPT
                                                         !.pc = "enter", !.key = Head(work_q)]]
    /\ UNCHANGED <<translation_cache, cache_file, client, call, batch, fp, val, tp, vs, app, pe>>

\* lines 975-982 and 100-110: the worker calls translate, which checks the
\* cache, takes the mock path or enters the retry loop
WorkerEntersTranslate ==
    /\ \E t \in Threads :
         LET th == wk.threads[t]
             meta == wk.data[IndexOf(wk.data, th.key)].entry
             c == EnteredCall(meta.text, wk.target_language, wk.translation_style,
                              meta.topic, DefaultMaxRetries)
         IN  /\ th.pc = "enter"
             /\ wk' = Moves(t, [th EXCEPT !.call = c,
                                          !.pc = IF c.pc = "done" THEN "store" ELSE "attempt"])
    /\ UNCHANGED <<translation_cache, cache_file, client, call, batch, fp, val, tp, vs, app, pe>>

\* lines 115-130: the backend answers the worker's call
WorkerBackendAnswers ==
    /\ \E t \in Threads, content \in WorkerContents :
         LET th == wk.threads[t]
         IN  /\ th.pc = "attempt"
             /\ wk' = Moves(t, [th EXCEPT
                                   !.call = [Called(th.call, "ok") EXCEPT
                                                !.result = Unquote(strip(content))],
                                   !.pc = "update"])
    /\ UNCHANGED <<translation_cache, cache_file, client, call, batch, fp, val, tp, vs, app, pe>>

\* lines 115, 138-146: the backend call of the worker raises
WorkerBackendRaises ==
    /\ \E t \in Threads, e \in BackendErrors :
         LET th == wk.threads[t]
             c == OnException(Called(th.call, "fail"), e)
         IN  /\ th.pc = "attempt"
             /\ wk' = Moves(t, [th EXCEPT !.call = c,
                                          !.pc = IF c.pc = "done" THEN "store" ELSE "attempt"])
    /\ UNCHANGED <<translation_cache, cache_file, client, call, batch, fp, val, tp, vs, app, pe>>

\* line 133: self.translation_cache[cache_key] = translated_text
WorkerUpdatesCache ==
    /\ \E t \in Threads :
         LET th == wk.threads[t]
         IN  /\ th.pc = "update"
             /\ translation_cache' = CachePut(translation_cache, CallKey(th.call), th.call.result)
             /\ wk' = Moves(t, [th EXCEPT !.pc = "open"])
    /\ UNCHANGED <<cache_file, client, call, batch, fp, val, tp, vs, app, pe>>

\* line 75: save_cache opens the cache file for writing, which empties it;
\* when the open fails, line 77 catches it and translate goes on to return
WorkerOpensFile ==
    /\ \E t \in Threads, io_ok \in BOOLEAN :
         LET th == wk.threads[t]
         IN  /\ th.pc = "open"
             /\ cache_file' = IF io_ok THEN PartialFile ELSE cache_file
             /\ wk' = Moves(t, [th EXCEPT
                                   !.pc = IF io_ok THEN "dump" ELSE "store",
                                   !.call = [th.call EXCEPT !.pc = IF io_ok THEN @ ELSE "done"]])
    /\ UNCHANGED <<translation_cache, client, call, batch, fp, val, tp, vs, app, pe>>

\* line 76: json.dump starts to iterate over the entries of the dict
WorkerStartsDump ==
    /\ \E t \in Threads :
         LET th == wk.threads[t]
         IN  /\ th.pc = "dump"
             /\ wk' = Moves(t, [th EXCEPT !.pc = "dumping", !.seen = DOMAIN translation_cache])
    /\ UNCHANGED <<translation_cache, cache_file, client, call, batch, fp, val, tp, vs, app, pe>>

\* another thread has the cache file open for writing
OthersWriting(t) ==
    \E u \in Threads \ {t} : wk.threads[u].pc \in {"dump", "dumping"}

\* lines 76-78: json.dump ends. A dict that changed size while it was iterated
\* raises RuntimeError, caught by line 77 with the file cut short; with another
\* writer on the same file the bytes of the two mix or this writer's prevail
WorkerEndsDump ==
    /\ \E t \in Threads :
         LET th == wk.threads[t]
         IN  /\ th.pc = "dumping"
             /\ IF DOMAIN translation_cache # th.seen
                THEN cache_file' = PartialFile
                ELSE IF OthersWriting(t)
                THEN cache_file' \in {translation_cache, PartialFile}
                ELSE cache_file' = translation_cache
             /\ wk' = Moves(t, [th EXCEPT !.pc = "store", !.seen = {},
                                          !.call = [th.call EXCEPT !.pc = "done"]])
    /\ UNCHANGED <<translation_cache, client, call, batch, fp, val, tp, vs, app, pe>>

\* lines 983-985: translate has returned; the worker stores the result
WorkerStoresResult ==
    /\ \E t \in Threads :
         LET th == wk.threads[t]
         IN  /\ th.pc = "store"
             /\ wk' = [wk EXCEPT !.translated_data =
                                     StoreTranslation(wk.translated_data, th.key,
                                                      wk.target_language, th.call.result),
                                 !.threads[t] = [th EXCEPT !.pc = "count"]]
    /\ UNCHANGED <<translation_cache, cache_file, client, call, batch, fp, val, tp, vs, app, pe>>

\* lines 986-988: with lock: self._parallel_done += 1; done = self._parallel_done
WorkerCountsDone ==
    /\ \E t \in Threads :
         LET th == wk.threads[t]
         IN  /\ th.pc = "count"
             /\ wk' = [wk EXCEPT !.parallel_done = wk.parallel_done + 1,
                                 !.threads[t] = [th EXCEPT !.pc = "progress",
                                                           !.done = wk.parallel_done + 1]]
    /\ UNCHANGED <<translation_cache, cache_file, client, call, batch, fp, val, tp, vs, app, pe>>

\* line 989: self.progress_queue.put(('progress', done, key, translated_text))
WorkerPutsProgress ==
    /\ \E t \in Threads :
         LET th == wk.threads[t]
         IN  /\ th.pc = "progress"
             /\ wk' = [wk EXCEPT !.progress_queue =
                                     Append(wk.progress_queue,
                                            [status |-> "progress", value |-> th.done,
                                             key |-> th.key, translation |-> th.call.result]),
                                 !.threads[t] = [th EXCEPT !.pc = "start", !.key = << >>,
                                                           !.call = IdleCall, !.done = 0]]
    /\ UNCHANGED <<translation_cache, cache_file, client, call, batch, fp, val, tp, vs, app, pe>>

TerminalEvent(status) ==
    [status |-> status, value |-> 0, key |-> << >>, translation |-> << >>]

\* lines 994-1000: after the loop, with lock: the cancelled or the complete event
WorkerFinishes ==
    /\ \E t \in Threads :
         LET th == wk.threads[t]
         IN  /\ th.pc = "finish"
             /\ wk' =
                  IF wk.cancel_requested /\ ~wk.cancel_event_sent
                  THEN [wk EXCEPT !.cancel_event_sent = TRUE,
                                  !.progress_queue = Append(wk.progress_queue,
                                                            TerminalEvent("cancelled")),
                                  !.threads[t] = [th EXCEPT !.pc = "exit"]]
                  ELSE IF /\ ~wk.cancel_requested
                          /\ wk.parallel_done >= wk.parallel_total
                          /\ ~wk.complete_event_sent
                  THEN [wk EXCEPT !.complete_event_sent = TRUE,
                                  !.progress_queue = Append(wk.progress_queue,
                                                            TerminalEvent("complete")),
                                  !.threads[t] = [th EXCEPT !.pc = "exit"]]
                  ELSE Moves(t, [th EXCEPT !.pc = "exit"])
    /\ UNCHANGED <<translation_cache, cache_file, client, call, batch, fp, val, tp, vs, app, pe>>

\* cancel_translation, lines 1060-1067
CancelTranslation ==
    /\ wk.pc = "running"
    /\ wk.cancel_btn = Normal
    /\ ~wk.cancel_requested
    /\ wk' = [wk EXCEPT !.cancel_requested = TRUE, !.cancel_btn = Disabled]
    /\ UNCHANGED <<translation_cache, cache_file, client, call, batch, fp, val, tp, vs, app, pe>>

NextWorkers ==
    \/ WorkerChecksCancel
    \/ WorkerGetsKey
    \/ WorkerEntersTranslate
    \/ WorkerBackendAnswers
    \/ WorkerBackendRaises
    \/ WorkerUpdatesCache
    \/ WorkerOpensFile
    \/ WorkerStartsDump
    \/ WorkerEndsDump
    \/ WorkerStoresResult
    \/ WorkerCountsDone
    \/ WorkerPutsProgress
    \/ WorkerFinishes
    \/ CancelTranslation

SpecWorkers == InitWorkers /\ [][NextWorkers]_vars

-----------------------------------------------------------------------------
(* Claims about the cache writes of concurrent workers *)

\* the workers that have run line 133 and whose save_cache has not returned
InCacheWrite == {t \in Threads : wk.threads[t].pc \in {"open", "dump", "dumping"}}

\* C20: cache writes by concurrent workers are serialized: at most one worker
\* at a time is between the start of its in-memory cache update and the end
\* of its flush of the cache file.
C20_CacheWritesSerialized ==
    wk.pc = "running" => Cardinality(InCacheWrite) <= 1

-----------------------------------------------------------------------------
(* Claims about the delays of translate *)

RECURSIVE SumSeq(_)
SumSeq(q) == IF q = << >> THEN 0 ELSE Head(q) + SumSeq(Tail(q))

\* C24: translate sleeps 2^i seconds after failed attempt i (counted from 0)
\* when another attempt follows, and at no other time: the delays of a call
\* are 1, 2, 4, ... in this order, one per failed attempt that was not the
\* last one allowed; a call that made no backend call, or whose first backend
\* call succeeded, has not slept; nothing is slept after a success or after
\* the final failure, so a call with max_retries = n >= 1 whose attempts all
\* failed has slept 2^(n-1) - 1 seconds in total.
C24_BackoffSchedule ==
    /\ \A i \in 1..Len(call.slept) : call.slept[i] = 2 ^ (i - 1)
    /\ call.pc = "loop" => Len(call.slept) = Failures(call)
    /\ call.pc = "done" =>
         /\ Len(call.slept) = IF call.backend_calls = 0 THEN 0 ELSE call.backend_calls - 1
         /\ Len(call.slept) = IF AllFailed(call) /\ call.backend_calls > 0
                              THEN call.max_retries - 1
                              ELSE Failures(call)
         /\ (AllFailed(call) /\ call.backend_calls > 0)
              => SumSeq(call.slept) = 2 ^ (call.max_retries - 1) - 1

\* C24 witness: a call with max_retries = 3 that failed three times and slept
\* one second, then two.
C24_Witness ==
    /\ call.pc = "done"
    /\ call.max_retries = 3
    /\ call.backend_calls = 3
    /\ AllFailed(call)
    /\ call.slept = <<1, 2>>
    /\ SumSeq(call.slept) = 3

-----------------------------------------------------------------------------
(* Claims about what translate writes to the cache *)

\* a step on which a backend call of the current translate() succeeded
BackendSucceeded ==
    /\ call.pc = "loop"
    /\ call'.pc = "done"
    /\ call'.backend_calls = call.backend_calls + 1
    /\ call'.outcomes[call'.backend_calls] = "ok"

\* the texts a cache entry may hold: what a previous run stored, or a backend
\* answer stripped and unquoted
CacheableTexts ==
    UNION { {cache[k] : k \in DOMAIN cache} : cache \in StoredCaches }
      \cup { Unquote(strip(content)) : content \in BackendContents }

ProducedByMockOrFailure(t) ==
    \/ startswith(t, S_ErrorSentinel)
    \/ \E style \in Styles : startswith(t, StylePrefix(style))

\* C28: translate changes translation_cache and the cache file only on a
\* successful backend response: every step that changes either of them is the
\* success of a backend call, which stores exactly the returned text under the
\* request's fingerprint and writes the whole cache to the file unless the
\* write fails; the cache-hit return, the mock return, a failed
\* attempt and the final failure leave both as they were, so neither holds a
\* mock-tagged text or an "[ERROR:" sentinel, and none is served from the cache.
C28_CacheWrittenOnlyOnSuccess ==
    /\ [] /\ \A k \in DOMAIN translation_cache :
                /\ translation_cache[k] \in CacheableTexts
                /\ ~ProducedByMockOrFailure(translation_cache[k])
          /\ \A k \in DOMAIN cache_file :
                /\ cache_file[k] \in CacheableTexts
                /\ ~ProducedByMockOrFailure(cache_file[k])
    /\ [][ (translation_cache' # translation_cache \/ cache_file' # cache_file)
           => /\ BackendSucceeded
              /\ translation_cache' =
                   CachePut(translation_cache, CallKey(call), call'.result)
              /\ cache_file' \in {cache_file, translation_cache'} ]_vars

\* C28 witness: a mock return and a final failure have happened, seen by the
\* result of the call, with a cache that holds an entry and equals the file.
C28_Witness ==
    /\ call.pc = "done"
    /\ ProducedByMockOrFailure(call.result)
    /\ CallKey(call) \notin DOMAIN translation_cache
    /\ translation_cache # EmptyCache
    /\ cache_file = translation_cache

-----------------------------------------------------------------------------
(* Claims about the persistence of the cache *)

\* the entries of translation_cache that the cache file does not hold
Unsaved ==
    { k \in DOMAIN translation_cache :
        k \notin DOMAIN cache_file \/ cache_file[k] # translation_cache[k] }

\* C23: every successful backend translation is followed, before translate
\* returns, by a flush of the whole cache to the cache file, so at every point
\* of a sequence of translate calls at most one entry of the in-memory cache,
\* the most recently added one, is missing from the file.
C23_AtMostNewestUnsaved ==
    Cardinality(Unsaved) <= 1

-----------------------------------------------------------------------------
(* Claims about the topic of an entry *)

\* C30: extract_topic returns a non-empty string for every key: a formatted
\* topic name of at least one word, or one of the literals 'Global Variables'
\* and 'Unknown Topic'; so the 'Topic: ' clause of a description is never
\* followed by an empty name.
C30_TopicNeverEmpty ==
    Parsed =>
        LET e == pe.entry
        IN  /\ e.topic # << >>
            /\ split(e.topic) # << >>
            /\ e.description # S_TopicColon
            /\ ~startswith(e.description, S_TopicColon \o S_Sep)

-----------------------------------------------------------------------------
(* Claims about global-variable entries *)

\* the positions of localization_data whose key _is_global_variable holds for
GlobalPositions ==
    { i \in 1..Len(app.localization_data) :
        is_global_variable(app.localization_data[i].key, app.localization_data[i].entry) }

\* C29: global-variable entries are left out of translation and kept in the
\* export: a key of the loaded file for which _is_global_variable holds is not
\* in visible_localization_data (the rows of the table), is never the key a
\* worker of translate_all or translate_selected passes to translate, has no
\* entry in translated_data, and is written by export_file with its original
\* text at its original position.
C29_GlobalsSkippedAndExported ==
    /\ app.pc \in {"ready", "exported"}
    /\ \A i \in GlobalPositions :
         LET key == app.localization_data[i].key
         IN  /\ key \notin KeysOf(app.visible_localization_data)
             /\ app.item.active => app.item.key # key
             /\ key \notin KeysOf(app.translated_data)
             /\ Exported =>
                  /\ i <= Len(app.export_data)
                  /\ app.export_data[i] =
                       [key |-> key, value |-> app.localization_data[i].entry.text]
    /\ KeysOf(app.visible_localization_data) =
         KeysOf(app.localization_data) \
           {app.localization_data[i].key : i \in GlobalPositions}

\* C29 witness: a file whose first entry is a global variable has been
\* exported after its other entry was translated: the first exported pair is
\* the global variable with its original text.
C29_Witness ==
    /\ Exported
    /\ 1 \in GlobalPositions
    /\ app.localization_data[1].key = K_Global
    /\ K_Card \in KeysOf(app.translated_data)
    /\ app.export_data[1] = [key |-> K_Global, value |-> <<"O","k">>]
    /\ Len(app.export_data) = 2

-----------------------------------------------------------------------------
(* Claims about the events of a batch *)

TerminalStatuses == {"complete", "cancelled"}

\* C26: the terminal event of a batch ('complete' or 'cancelled') is the last
\* event its workers put on the progress queue: no 'progress' event is put
\* after it, so the consumer, which stops at a terminal event, leaves no
\* translated item's progress event unread.
C26_TerminalEventIsLast ==
    wk.pc = "running" =>
        \A i, j \in 1..Len(wk.progress_queue) :
            (i < j /\ wk.progress_queue[i].status \in TerminalStatuses)
                => wk.progress_queue[j].status # "progress"

-----------------------------------------------------------------------------
(* Claims about cancellation *)

\* the positions of a worker between its dequeue and the store of the result
InFlight == {"enter", "attempt", "update", "open", "dump", "dumping", "store"}

\* C21: cancellation is cooperative: once cancel_translation has set the flag
\* for a running batch, no worker of the batch takes another item from the
\* work queue, while a worker that had already taken an item goes on through
\* translate and stores the result in translated_data.
C21_NoDequeueAfterCancel ==
    [][ wk.pc = "running" =>
          /\ wk.cancel_requested => wk'.work_q = wk.work_q
          /\ \A t \in Threads :
               LET th == wk.threads[t]
                   next == wk'.threads[t]
               IN  th.pc \in InFlight =>
                     /\ next.pc \in InFlight \cup {"count"}
                     /\ next.pc = "count" =>
                          /\ th.key \in KeysOf(wk'.translated_data)
                          /\ LangGet(wk'.translated_data[
                                        IndexOf(wk'.translated_data, th.key)].langs,
                                     wk.target_language) = th.call.result ]_vars

-----------------------------------------------------------------------------
(* CopilotTranslator: batches started one after another, with the consumer *)
(* of the progress queue. translate is one step here: the backend answers  *)
(* and the cache is updated and saved.                                     *)

MaxBatches == 2

K_Title == <<"'","d","i","a","l","o","g","(","t","o","p","i","c",".","B","i","l","l","i","n","g",")",".","C","a","r","d",".","1",".","t","i","t","l","e">>

\* the visible entries of a file of three entries
SessionData ==
    VisibleOf(parser_load_file(<< [key |-> K_Plain, value |-> <<"O","k">>],
                                  [key |-> K_Card, value |-> <<"P","a","y"," ","n","o","w">>],
                                  [key |-> K_Title, value |-> <<"B","i","l","l">>] >>))

\* get_selected_keys for the first batch: the first two rows of the table
FirstSelection == <<K_Plain, K_Card>>

\* get_selected_keys for a later batch: one row of the table
LaterSelections == { <<key>> : key \in KeysOf(SessionData) }

InitSession ==
    /\ wk = StartedBatch(NoBatch, SessionData, FirstSelection)
    /\ translation_cache = EmptyCache
    /\ cache_file = EmptyCache
    /\ client = TRUE
    /\ call = IdleCall
    /\ batch = IdleBatch
    /\ fp = IdleFp
    /\ val = IdleVal
    /\ tp = IdleTp
    /\ vs = IdleVs
    /\ app = IdleApp
    /\ pe = IdlePe

\* translate_selected, lines 901-921, with the rows the user selected; the
\* button that calls it is disabled while a batch runs
TranslateSelected ==
    /\ wk.translate_btn = Normal
    /\ Len(wk.work_q) < MaxBatches
    /\ \E keys \in LaterSelections : wk' = StartedBatch(wk, wk.data, keys)
    /\ UNCHANGED <<translation_cache, cache_file, client, call, batch, fp, val, tp, vs, app, pe>>

\* lines 115-136 in one step: the backend answers the worker's call, the
\* result is cached, the cache saved, and translate returns
WorkerTranslateReturns ==
    /\ \E t \in Threads, content \in WorkerContents :
         LET th == wk.threads[t]
             translated_text == Unquote(strip(content))
             cache == CachePut(translation_cache, CallKey(th.call), translated_text)
         IN  /\ th.pc = "attempt"
             /\ translation_cache' = cache
             /\ cache_file' = save_cache(cache, cache_file, TRUE)
             /\ wk' = Moves(t, [th EXCEPT
                                   !.call = [Called(th.call, "ok") EXCEPT
                                                !.pc = "done", !.result = translated_text],
                                   !.pc = "store"])
    /\ UNCHANGED <<client, call, batch, fp, val, tp, vs, app, pe>>

\* TranslationTable.update_translation: the row of key shows translation
UpdatedTable(table, key, translation) ==
    IF key \in KeysOf(table)
    THEN [i \in 1..Len(table) |->
             IF table[i].key = key THEN [key |-> key, translation |-> translation]
             ELSE table[i]]
    ELSE Append(table, [key |-> key, translation |-> translation])

\* _check_translation_progress, lines 1009-1058, for one event of the queue:
\* a progress event updates the row of its key; a terminal event enables the
\* translate buttons, disables Stop and ends the polling. With the queue
\* empty the handler only schedules itself again.
CheckTranslationProgress ==
    /\ wk.polling
    /\ wk.progress_queue # << >>
    /\ LET event == Head(wk.progress_queue)
       IN  IF event.status = "progress"
           THEN wk' = [wk EXCEPT !.progress_queue = Tail(wk.progress_queue),
                                 !.table = UpdatedTable(wk.table, event.key,
                                                        event.translation)]
           ELSE wk' = [wk EXCEPT !.progress_queue = Tail(wk.progress_queue),
                                 !.translate_btn = Normal,
                                 !.cancel_btn = Disabled,
                                 !.polling = FALSE]
    /\ UNCHANGED <<translation_cache, cache_file, client, call, batch, fp, val, tp, vs, app, pe>>

NextSession ==
    \/ TranslateSelected
    \/ WorkerChecksCancel
    \/ WorkerGetsKey
    \/ WorkerEntersTranslate
    \/ WorkerTranslateReturns
    \/ WorkerStoresResult
    \/ WorkerCountsDone
    \/ WorkerPutsProgress
    \/ WorkerFinishes
    \/ CancelTranslation
    \/ CheckTranslationProgress

SpecSession == InitSession /\ [][NextSession]_vars

-----------------------------------------------------------------------------
(* Claims about the worker pool *)

\* the positions of a worker inside TranslationService.translate
TranslatePcs == {"attempt", "update", "open", "dump", "dumping"}

\* the worker threads that are executing a translate call
InTranslate == {t \in Threads : wk.threads[t].pc \in TranslatePcs}

\* the workers started for the batch that runs (the one started last)
WorkersOfBatch == {t \in Threads : wk.threads[t].batch = Len(wk.work_q)}

\* C22: the worker pool is bounded: a batch of n keys starts exactly
\* min(5, max(1, n)) workers, and at every moment the number of worker
\* threads executing a translate call is at most 5 and, for a batch of at
\* least one item, at most the item count of the batch.
C22_BoundedWorkerPool ==
    wk.pc = "running" =>
        /\ Cardinality(WorkersOfBatch) = Min(WorkerCap, Max(1, Len(wk.keys)))
        /\ Cardinality(InTranslate) <= WorkerCap
        /\ wk.parallel_total >= 1 => Cardinality(InTranslate) <= wk.parallel_total

-----------------------------------------------------------------------------
(* Claims about the completion of a batch *)

\* the 'complete' events waiting on the progress queue
CompleteEvents ==
    {i \in 1..Len(wk.progress_queue) : wk.progress_queue[i].status = "complete"}

\* every worker of the running batch has left its loop and the block after it
BatchWorkersExited == \A t \in WorkersOfBatch : wk.threads[t].pc = "exit"

\* C25: in a batch that is not cancelled (and no worker raises) the workers
\* put exactly one 'complete' event, under every interleaving: none before
\* every key of the batch has its result in translated_data and
\* _parallel_done equals the batch size, never a second one, and one has
\* been put by the time the last worker of the batch has exited.
C25_CompleteOnceWhenAllStored ==
    (wk.pc = "running" /\ ~wk.cancel_requested) =>
        /\ wk.complete_event_sent =>
             /\ \A i \in 1..Len(wk.keys) : wk.keys[i] \in KeysOf(wk.translated_data)
             /\ wk.parallel_done = wk.parallel_total
        /\ Cardinality(CompleteEvents) <= 1
        /\ CompleteEvents # {} => wk.complete_event_sent
        /\ BatchWorkersExited => wk.complete_event_sent

-----------------------------------------------------------------------------
(* Claims about two identical requests in one batch *)

\* the visible entries of a file whose two entries have the same text and
\* belong to the same topic
TwinData ==
    VisibleOf(parser_load_file(<< [key |-> K_Card, value |-> <<"O","k">>],
                                  [key |-> K_Title, value |-> <<"O","k">>] >>))

\* translate_all on that file
InitTwins ==
    /\ wk = StartedBatch(NoBatch, TwinData, <<K_Card, K_Title>>)
    /\ translation_cache = EmptyCache
    /\ cache_file = EmptyCache
    /\ client \in BOOLEAN
    /\ call = IdleCall
    /\ batch = IdleBatch
    /\ fp = IdleFp
    /\ val = IdleVal
    /\ tp = IdleTp
    /\ vs = IdleVs
    /\ app = IdleApp
    /\ pe = IdlePe

SpecTwins == InitTwins /\ [][NextWorkers]_vars

\* lines 975-982 and 101: the cache key of the request a worker makes for key
RequestKey(key) ==
    LET meta == wk.data[IndexOf(wk.data, key)].entry
    IN  get_cache_key(meta.text, wk.target_language, wk.translation_style, meta.topic)

\* two workers that hold different keys of the batch with identical requests
Twins(t, u) ==
    /\ t # u
    /\ wk.threads[t].key # << >>
    /\ wk.threads[u].key # << >>
    /\ wk.threads[t].key # wk.threads[u].key
    /\ RequestKey(wk.threads[t].key) = RequestKey(wk.threads[u].key)

\* the text stored in translated_data for a key in the target language
StoredText(key) ==
    wk.translated_data[IndexOf(wk.translated_data, key)].langs[wk.target_language]

\* C27 as stated: of two keys of a batch whose requests are identical, the
\* backend is invoked for at most one under every interleaving of the
\* workers, and both keys receive the same text.
C27_BackendCalledForOneTwin ==
    /\ \A t, u \in Threads :
          Twins(t, u) =>
              ~(wk.threads[t].call.backend_calls > 0 /\ wk.threads[u].call.backend_calls > 0)
    /\ \A i, j \in 1..Len(wk.keys) :
          (/\ RequestKey(wk.keys[i]) = RequestKey(wk.keys[j])
           /\ wk.keys[i] \in KeysOf(wk.translated_data)
           /\ wk.keys[j] \in KeysOf(wk.translated_data))
          => StoredText(wk.keys[i]) = StoredText(wk.keys[j])

\* C27, amended: a worker whose cache check (lines 101-103) runs when the
\* cache already holds the key of its request, as it does once the worker
\* of an identical request has run line 133, makes no backend call and
\* returns the text the cache holds, which is what is then stored for its
\* key; only workers that check before that write go to the backend.
C27_LateLookupServedFromCache ==
    [][\A t \in Threads :
          (/\ wk.threads[t].pc = "enter"
           /\ t \in DOMAIN wk'.threads
           /\ wk'.threads[t].pc # "enter"
           /\ RequestKey(wk.threads[t].key) \in DOMAIN translation_cache)
          => /\ wk'.threads[t].pc = "store"
             /\ wk'.threads[t].call.backend_calls = 0
             /\ wk'.threads[t].call.result =
                    translation_cache[RequestKey(wk.threads[t].key)]]_vars

\* a worker answered from the cache with the text the worker of the
\* identical request has stored for the other key
C27_Witness ==
    \E t \in Threads :
        /\ client
        /\ wk.threads[t].pc = "store"
        /\ wk.threads[t].key = K_Title
        /\ wk.threads[t].call.backend_calls = 0
        /\ K_Card \in KeysOf(wk.translated_data)
        /\ wk.threads[t].call.result = StoredText(K_Card)

====
